---- MODULE Spec2Model ----
(***************************************************************************)
(* Outfit-intelligence-tool: the colour model (js/colorAnalysis.js), the   *)
(* harmony classifier and the scoring engine (Scoring), as state machines  *)
(* whose actions apply the functions to inputs drawn in Init.              *)
(*                                                                         *)
(* A colour is the hsl part of a ColorRecord, [h, s, l], which is all that *)
(* analyzeHarmony and calculateOutfitScore read.  Quotients that the code  *)
(* computes in floating point (averages) are kept as numerator and         *)
(* denominator, and a comparison avg >= k is written sum >= k * count.     *)
(***************************************************************************)
EXTENDS Integers, Sequences, FiniteSets, TLC

VARIABLES
    pc,          \* position in the analysis pipeline
    colors,      \* the ColorRecords handed to the analysis (their hsl)
    neutrals,    \* analyzeHarmony's local: colors.filter(isNeutral)
    chromatics,  \* analyzeHarmony's local: colors.filter(!isNeutral)
    harmony,     \* HarmonyResult: [type, score]
    score,       \* ScoreResult: [total, breakdown]
    grade,       \* getGrade's letter
    rgb,         \* rgbToHsl's input [r, g, b]
    hsl,         \* rgbToHsl's result [h, s, l]
    args,        \* the arguments of a call of one of the pure functions
    result,      \* what that call returned
    canvas,      \* the canvas holding the captured image
    configZones, \* GarmentDetection._config.zones
    body,        \* _detectBodyColumn's scan (maxSum, maxStart) and its result
    zones,       \* the zones detectZones returned (App.detectedZones)
    history,     \* localStorage[STORAGE_KEY]: the stored history, oldest first
    best,        \* localStorage[BEST_KEY]: the stored personal best
    clock,       \* Date.now()
    camera,      \* the Camera object: stream, _currentFacingMode, _isMirrored,
                 \* _isStarting
    calls,       \* each startCamera / switchCamera call: where it is
    requests,    \* the getUserMedia requests made, and the stream of each
    stopRequested \* stopCamera was called and no startCamera begun since

\* The variables of the colour analysis, and those of the other components.
analysisVars == <<colors, neutrals, chromatics, harmony, score, grade, rgb, hsl>>

garmentVars == <<canvas, configZones, body, zones>>

storeVars == <<history, best, clock>>

cameraVars == <<camera, calls, requests, stopRequested>>

extVars == <<args, result, garmentVars, storeVars, cameraVars>>

vars == <<pc, analysisVars, extVars>>

None == "none"

\* GarmentDetection._config.zones as the file sets it: the vertical band of
\* each zone, in hundredths of the image height, and its label.
DefaultZones ==
    [top    |-> [yStart |-> 8,  yEnd |-> 42, label |-> "Top"],
     bottom |-> [yStart |-> 42, yEnd |-> 78, label |-> "Bottom"],
     shoes  |-> [yStart |-> 78, yEnd |-> 97, label |-> "Shoes"]]

\* No call of another component has been made; no image has been captured.
GarmentIdle ==
    /\ canvas = None
    /\ configZones = DefaultZones
    /\ body = None
    /\ zones = None

\* A stored entry: its id, its timestamp and its score.total.
Entry(id, timestamp, total) == [id |-> id, timestamp |-> timestamp, score |-> total]

\* localStorage has no item under BEST_KEY; or it has this entry.
NoBest == [present |-> FALSE, entry |-> Entry(0, 0, 0)]

Best(entry) == [present |-> TRUE, entry |-> entry]

\* Nothing is stored.
StoreIdle ==
    /\ history = <<>>
    /\ best = NoBest
    /\ clock = 0

\* The startCamera and switchCamera calls that can be made.
MaxStarts == 2

Calls == 1..MaxStarts

\* this.stream = null: no stream; otherwise the number of the request that
\* delivered the stream.
NoStream == 0

\* The Camera object as the file builds it (lines 8-14).
NewCamera ==
    [stream |-> NoStream, facing |-> "environment", mirrored |-> FALSE,
     isStarting |-> FALSE]

\* A call that has not been made.
NoCall == [pc |-> "idle", preferRear |-> TRUE, attempt |-> 0, request |-> 0]

\* The camera has not been used.
CameraIdle ==
    /\ camera = NewCamera
    /\ calls = [c \in Calls |-> NoCall]
    /\ requests = <<>>
    /\ stopRequested = FALSE

ExtIdle == args = None /\ result = None /\ GarmentIdle /\ StoreIdle /\ CameraIdle

(***************************************************************************)
(* Generic helpers                                                         *)
(***************************************************************************)
Abs(x) == IF x < 0 THEN -x ELSE x

Min2(a, b) == IF a < b THEN a ELSE b

Max2(a, b) == IF a > b THEN a ELSE b

SetMax(S) == CHOOSE x \in S : \A y \in S : y <= x

SetMin(S) == CHOOSE x \in S : \A y \in S : x <= y

RECURSIVE SeqSum(_)
SeqSum(q) == IF q = <<>> THEN 0 ELSE Head(q) + SeqSum(Tail(q))

Range(q) == {q[i] : i \in 1..Len(q)}

(***************************************************************************)
(* ColorAnalysis: hue utilities and neutral detection                      *)
(***************************************************************************)
hueDifference(h1, h2) ==
    LET diff == Abs(h1 - h2)
    IN  Min2(diff, 360 - diff)

isWarmHue(h) == (h >= 0 /\ h < 70) \/ h >= 300

isCoolHue(h) == h >= 170 /\ h < 300

isNeutral(color) ==
    \/ color.s < 12
    \/ (color.l < 12 \/ color.l > 92) /\ color.s < 20

isFashionNeutral(color) ==
    LET h == color.h
        s == color.s
        l == color.l
    IN  \/ isNeutral(color)
        \/ h >= 210 /\ h <= 250 /\ s >= 20 /\ s <= 60 /\ l >= 10 /\ l <= 30
        \/ h >= 30 /\ h <= 55 /\ s >= 10 /\ s <= 40 /\ l >= 50 /\ l <= 80
        \/ h >= 60 /\ h <= 100 /\ s >= 15 /\ s <= 45 /\ l >= 20 /\ l <= 45
        \/ h >= 15 /\ h <= 40 /\ s >= 20 /\ s <= 60 /\ l >= 15 /\ l <= 40

(***************************************************************************)
(* ColorAnalysis: colour temperature                                       *)
(***************************************************************************)
getTemperature(color) ==
    IF isNeutral(color) THEN "neutral"
    ELSE IF isWarmHue(color.h) THEN "warm" ELSE "cool"

\* coherence = max(warmCount, coolCount) / chromaticTotal is kept as the pair
\* cohNum / cohDen (1 / 1 when there is no chromatic colour).
analyzeTemperature(cs) ==
    LET warmCount == Cardinality({i \in 1..Len(cs) : getTemperature(cs[i]) = "warm"})
        coolCount == Cardinality({i \in 1..Len(cs) : getTemperature(cs[i]) = "cool"})
        neutralCount == Len(cs) - warmCount - coolCount
        chromaticTotal == warmCount + coolCount
    IN  [ dominant |-> IF warmCount > coolCount THEN "warm"
                       ELSE IF coolCount > warmCount THEN "cool" ELSE "neutral",
          warmCount |-> warmCount,
          coolCount |-> coolCount,
          neutralCount |-> neutralCount,
          cohNum |-> IF chromaticTotal > 0 THEN Max2(warmCount, coolCount) ELSE 1,
          cohDen |-> IF chromaticTotal > 0 THEN chromaticTotal ELSE 1 ]

(***************************************************************************)
(* ColorAnalysis.analyzeHarmony                                            *)
(***************************************************************************)
NotNeutral(color) == ~isNeutral(color)

neutralsOf(cs) == SelectSeq(cs, isNeutral)

chromaticsOf(cs) == SelectSeq(cs, NotNeutral)

\* The pairwise hue differences, in the order of the code's double loop.
RECURSIVE pairDiffs(_, _, _)
pairDiffs(hues, i, j) ==
    IF i >= Len(hues) THEN <<>>
    ELSE IF j > Len(hues) THEN pairDiffs(hues, i + 1, i + 2)
    ELSE <<hueDifference(hues[i], hues[j])>> \o pairDiffs(hues, i, j + 1)

\* differencesOf taking only the colours next to each other in the list.
differencesOfNeighbours(chrom) ==
    [i \in 1..(Len(chrom) - 1) |-> hueDifference(chrom[i].h, chrom[i + 1].h)]

differencesOf(chrom) == pairDiffs([i \in 1..Len(chrom) |-> chrom[i].h], 1, 2)

\* Math.round(50 + coherence * 15 + bonus), coherence = n / d (round half up:
\* the only halves are 57.5 and 62.5, which doubles hold exactly).
mixedScore(n, d, bonus) == (2 * ((50 + bonus) * d + 15 * n) + d) \div (2 * d)

Result(t, sc) == [type |-> t, score |-> sc]

\* Monochromatic (lines 365-383): maxDiff < 25.
matchMonochromatic(maxDiff) == maxDiff < 25

\* monochromaticResult asking for variation in both saturation and lightness.
monochromaticResultBothVary(chrom) ==
    LET saturations == {chrom[i].s : i \in 1..Len(chrom)}
        lights == {chrom[i].l : i \in 1..Len(chrom)}
        satVariance == SetMax(saturations) - SetMin(saturations)
        lightVariance == SetMax(lights) - SetMin(lights)
    IN  IF satVariance > 25 /\ lightVariance > 25
        THEN Result("Monochromatic", 87)
        ELSE Result("Monochromatic - Flat", 68)

monochromaticResult(chrom) ==
    LET saturations == {chrom[i].s : i \in 1..Len(chrom)}
        lights == {chrom[i].l : i \in 1..Len(chrom)}
        satVariance == SetMax(saturations) - SetMin(saturations)
        lightVariance == SetMax(lights) - SetMin(lights)
    IN  IF satVariance > 25 \/ lightVariance > 25
        THEN Result("Monochromatic", 87)
        ELSE Result("Monochromatic - Flat", 68)

\* Analogous (lines 386-395).
matchAnalogous(maxDiff) == maxDiff >= 25 /\ maxDiff <= 60

analogousResult(neut, tempAnalysis) ==
    LET bonus == IF Len(neut) > 0 THEN 5 ELSE 0
        tempBonus == IF tempAnalysis.cohNum = tempAnalysis.cohDen THEN 3 ELSE 0
    IN  Result("Analogous", Min2(100, 88 + bonus + tempBonus))

\* matchSplitComplementary ending where the Complementary range begins.
matchSplitComplementaryBelowOpposite(chrom, differences) ==
    Len(chrom) >= 2 /\ \E k \in 1..Len(differences) :
                           differences[k] >= 130 /\ differences[k] < 150

\* Split-Complementary (lines 398-405).
matchSplitComplementary(chrom, differences) ==
    Len(chrom) >= 2 /\ \E k \in 1..Len(differences) :
                           differences[k] >= 130 /\ differences[k] <= 170

\* Complementary (lines 408-424); avgSaturation = satSum / Len(chrom).
matchComplementary(maxDiff) == maxDiff >= 150 /\ maxDiff <= 180

complementaryResult(neut, chrom) ==
    LET hasAnchor == Len(neut) > 0
        satSum == SeqSum([i \in 1..Len(chrom) |-> chrom[i].s])
    IN  IF satSum > 60 * Len(chrom) /\ ~hasAnchor
        THEN Result("Complementary - Bold", 75)
        ELSE Result("Complementary", IF hasAnchor THEN 90 ELSE 84)

\* matchTriadic asking for more than three chromatic colours.
matchTriadicMoreThanThree(chrom, differences) ==
    LET diffSet == Range(differences)
        spreadVariance == SetMax(diffSet) - SetMin(diffSet)
        isTriadic == (\A d \in diffSet : d >= 90 /\ d <= 150) \/ spreadVariance < 40
    IN  /\ Len(chrom) > 3
        /\ Len(differences) >= 3
        /\ isTriadic
        /\ SeqSum(differences) >= 90 * Len(differences)

\* Triadic (lines 427-439); avgDiff = sum of the differences / their number.
matchTriadic(chrom, differences) ==
    LET diffSet == Range(differences)
        spreadVariance == SetMax(diffSet) - SetMin(diffSet)
        isTriadic == (\A d \in diffSet : d >= 90 /\ d <= 150) \/ spreadVariance < 40
    IN  /\ Len(chrom) >= 3
        /\ Len(differences) >= 3
        /\ isTriadic
        /\ SeqSum(differences) >= 90 * Len(differences)

\* Color Clash (lines 442-461).
matchClash(chrom, differences) ==
    LET satSum == SeqSum([i \in 1..Len(chrom) |-> chrom[i].s])
    IN  /\ SeqSum(differences) >= 60 * Len(differences)
        /\ SeqSum(differences) < 130 * Len(differences)
        /\ satSum > 45 * Len(chrom)

\* clashResult taking any warm or cool colour for a temperature clash.
clashResultEitherTemperature(neut, chrom, tempAnalysis) ==
    LET tempClash == tempAnalysis.warmCount > 0 \/ tempAnalysis.coolCount > 0
    IN  IF Len(neut) >= 1 /\ Len(chrom) <= 2
        THEN Result("Tension (Neutral-Rescued)", 62)
        ELSE Result("Color Clash", IF tempClash THEN 32 ELSE 40)

clashResult(neut, chrom, tempAnalysis) ==
    LET tempClash == tempAnalysis.warmCount > 0 /\ tempAnalysis.coolCount > 0
    IN  IF Len(neut) >= 1 /\ Len(chrom) <= 2
        THEN Result("Tension (Neutral-Rescued)", 62)
        ELSE Result("Color Clash", IF tempClash THEN 32 ELSE 40)

\* Warm Harmony / Cool Harmony (lines 464-471).
matchTemperatureHarmony(chrom, tempAnalysis) ==
    tempAnalysis.cohNum = tempAnalysis.cohDen /\ Len(chrom) >= 2

temperatureHarmonyResult(tempAnalysis) ==
    Result(IF tempAnalysis.dominant = "warm" THEN "Warm Harmony" ELSE "Cool Harmony", 78)

\* Mixed (lines 474-480).
mixedResult(neut, tempAnalysis) ==
    Result("Mixed", Min2(70, mixedScore(tempAnalysis.cohNum, tempAnalysis.cohDen,
                                        IF Len(neut) > 0 THEN 5 ELSE 0)))

\* The rules for several chromatic colours, first match wins (lines 344-480).
hueWheelHarmony(neut, chrom) ==
    LET differences == differencesOf(chrom)
        maxDiff == SetMax(Range(differences))
        tempAnalysis == analyzeTemperature(chrom)
    IN  IF matchMonochromatic(maxDiff) THEN monochromaticResult(chrom)
        ELSE IF matchAnalogous(maxDiff) THEN analogousResult(neut, tempAnalysis)
        ELSE IF matchSplitComplementary(chrom, differences)
        THEN Result("Split-Complementary", 84)
        ELSE IF matchComplementary(maxDiff) THEN complementaryResult(neut, chrom)
        ELSE IF matchTriadic(chrom, differences) THEN Result("Triadic", 82)
        ELSE IF matchClash(chrom, differences)
        THEN clashResult(neut, chrom, tempAnalysis)
        ELSE IF matchTemperatureHarmony(chrom, tempAnalysis)
        THEN temperatureHarmonyResult(tempAnalysis)
        ELSE mixedResult(neut, tempAnalysis)

\* All neutrals (lines 307-323).
achromaticResult(cs) ==
    LET lights == {cs[i].l : i \in 1..Len(cs)}
        lightRange == SetMax(lights) - SetMin(lights)
    IN  IF lightRange > 40
        THEN Result("Achromatic Contrast", 85)
        ELSE Result("Achromatic", 72)

\* neutralAnchoredResult with the saturation threshold inclusive.
neutralAnchoredResultInclusive(chrom) ==
    LET saturation == chrom[1].s
    IN  IF saturation >= 50
        THEN Result("Neutral-Anchored Pop", 88)
        ELSE Result("Neutral-Anchored", 80)

\* One chromatic colour and neutrals (lines 326-342).
neutralAnchoredResult(chrom) ==
    LET saturation == chrom[1].s
    IN  IF saturation > 50
        THEN Result("Neutral-Anchored Pop", 88)
        ELSE Result("Neutral-Anchored", 80)

analyzeHarmony(cs) ==
    LET neut == neutralsOf(cs)
        chrom == chromaticsOf(cs)
    IN  IF Len(cs) < 2 THEN Result("Single Color", 50)
        ELSE IF Len(chrom) = 0 THEN achromaticResult(cs)
        ELSE IF Len(chrom) = 1 /\ Len(neut) >= 1 THEN neutralAnchoredResult(chrom)
        ELSE hueWheelHarmony(neut, chrom)

(***************************************************************************)
(* Scoring: Math.exp in fixed point.  A value x in [0, 1] is the integer   *)
(* x * FixedOne; products are formed limb by limb so that every            *)
(* intermediate stays below 2^31.                                          *)
(***************************************************************************)
FixedOne == 100000000

FixedLimb == 10000

ExpTerms == 13

\* a * b / FixedOne for 0 <= a, b <= FixedOne.
MulFixed(a, b) ==
    LET a1 == a \div FixedLimb
        a0 == a % FixedLimb
        b1 == b \div FixedLimb
        b0 == b % FixedLimb
    IN  a1 * b1 + ((a1 * b0 + a0 * b1) + (a0 * b0) \div FixedLimb) \div FixedLimb

\* The Taylor series of exp(-t) from its n-th term on, term = t^n / n!.
RECURSIVE ExpSeries(_, _, _)
ExpSeries(t, n, term) ==
    IF n > ExpTerms THEN 0
    ELSE (IF n % 2 = 0 THEN term ELSE -term)
         + ExpSeries(t, n + 1, MulFixed(term, t) \div (n + 1))

RECURSIVE ExpTimes(_, _, _)
ExpTimes(e, e1, k) == IF k = 0 THEN e ELSE ExpTimes(MulFixed(e, e1), e1, k - 1)

\* exp(-num / den) for num >= 0, den > 0: exp(-frac) * exp(-1)^whole.
ExpNeg(num, den) ==
    LET whole == num \div den
        r == num % den
        q1 == (r * FixedLimb) \div den
        r1 == (r * FixedLimb) % den
        q2 == (r1 * FixedLimb) \div den
        t == q1 * FixedLimb + q2
    IN  ExpTimes(ExpSeries(t, 0, FixedOne), ExpSeries(FixedOne, 0, FixedOne), whole)

\* Scoring._bellCurve(n / d, center, spread) = exp(-0.5 * ((n/d - center) / spread)^2)
_bellCurve(n, d, center, spread) ==
    LET dev == n - center * d
    IN  ExpNeg(dev * dev, 2 * d * d * spread * spread)

\* Math.round of a non-negative fixed-point value.
RoundFixed(x) == (x + FixedOne \div 2) \div FixedOne

(***************************************************************************)
(* Scoring: helpers                                                        *)
(***************************************************************************)
RECURSIVE pairContrasts(_, _, _)
pairContrasts(cs, i, j) ==
    IF i >= Len(cs) THEN <<>>
    ELSE IF j > Len(cs) THEN pairContrasts(cs, i + 1, i + 2)
    ELSE <<Abs(cs[i].l - cs[j].l)>> \o pairContrasts(cs, i, j + 1)

_pairwiseContrasts(cs) == pairContrasts(cs, 1, 2)

_isNeutral(color) == color.s < 12

_isWarmHue(h) == (h >= 0 /\ h < 70) \/ h >= 300

_isCoolHue(h) == h >= 170 /\ h < 300

scoringChromatic(color) == ~_isNeutral(color)

(***************************************************************************)
(* Scoring.calculateOutfitScore: the six items                             *)
(***************************************************************************)
\* Math.round(harmonyResult.score * 0.30)
harmonyPoints(h) == (6 * h.score + 10) \div 20

contrastPoints(cs) ==
    LET contrasts == _pairwiseContrasts(cs)
    IN  IF Len(contrasts) > 0
        THEN RoundFixed(18 * _bellCurve(SeqSum(contrasts), Len(contrasts), 38, 18))
        ELSE 0

intensityPoints(cs) ==
    LET sats == {cs[i].s : i \in 1..Len(cs)}
        satSum == SeqSum([i \in 1..Len(cs) |-> cs[i].s])
        satVariance == SetMax(sats) - SetMin(sats)
        satVarScore == 8 * _bellCurve(satVariance, 1, 35, 20)
        avgSatScore == 7 * _bellCurve(satSum, Len(cs), 45, 25)
    IN  RoundFixed(satVarScore + avgSatScore)

coherencePoints(cs) ==
    LET chromaticColors == SelectSeq(cs, scoringChromatic)
        n == Len(chromaticColors)
        warmCount == Cardinality({i \in 1..n : _isWarmHue(chromaticColors[i].h)})
        coolCount == Cardinality({i \in 1..n : _isCoolHue(chromaticColors[i].h)})
        top == Max2(warmCount, coolCount)
    IN  IF n >= 2
        THEN IF top = n THEN 12
             ELSE IF 100 * top >= 66 * n THEN 8
             ELSE 4
        ELSE 10

anchorPoints(cs) ==
    LET chromaticColors == SelectSeq(cs, scoringChromatic)
        neutralCount == Len(SelectSeq(cs, _isNeutral))
        satSum == SeqSum([i \in 1..Len(cs) |-> cs[i].s])
    IN  IF neutralCount = 1 /\ Len(chromaticColors) >= 1 THEN 10
        ELSE IF neutralCount = 2 /\ Len(cs) = 3 THEN 7
        ELSE IF neutralCount = 0 /\ satSum > 50 * Len(cs) THEN 5
        ELSE IF neutralCount = Len(cs) THEN 8
        ELSE 6

\* polishPoints before the clamp to [0, 15] (lines 1188-1232).
rawPolish(cs, h) ==
    LET chromaticColors == SelectSeq(cs, scoringChromatic)
        n == Len(chromaticColors)
        warmC == Cardinality({i \in 1..n : _isWarmHue(chromaticColors[i].h)})
        coolC == Cardinality({i \in 1..n : _isCoolHue(chromaticColors[i].h)})
        highSatCount == Cardinality({i \in 1..Len(cs) : cs[i].s > 75})
        lightSum == SeqSum([i \in 1..Len(cs) |-> cs[i].l])
        lightSquares == SeqSum([i \in 1..Len(cs) |-> cs[i].l * cs[i].l])
        \* lightStdDev > 30, as variance > 900 with the denominators cleared
        extreme == Len(cs) * lightSquares - lightSum * lightSum > 900 * Len(cs) * Len(cs)
    IN  15
        - (IF h.type = "Color Clash" THEN 8 ELSE 0)
        - (IF highSatCount >= 3 THEN 5 ELSE 0)
        - (IF n >= 2 /\ warmC > 0 /\ coolC > 0 /\ Abs(warmC - coolC) <= 1 THEN 4 ELSE 0)
        - (IF extreme THEN 3 ELSE 0)
        + (IF h.type = "Analogous" THEN 3
           ELSE IF h.type = "Complementary" THEN 2
           ELSE IF h.type = "Monochromatic" /\ n >= 2 THEN 2
           ELSE 0)

polishPoints(cs, h) == Max2(0, Min2(15, rawPolish(cs, h)))

(***************************************************************************)
(* Scoring.calculateOutfitScore and Scoring.getGrade                       *)
(***************************************************************************)
\* calculateOutfitScore with polishPoints added to the score before its clamp.
calculateOutfitScoreUnclampedPolish(cs, h) ==
    LET p1 == harmonyPoints(h)
        p2 == contrastPoints(cs)
        p3 == intensityPoints(cs)
        p4 == coherencePoints(cs)
        p5 == anchorPoints(cs)
        p6 == polishPoints(cs, h)
        sum == p1 + p2 + p3 + p4 + p5 + rawPolish(cs, h)
    IN  [ total |-> Max2(0, Min2(100, sum)),
          breakdown |-> <<p1, p2, p3, p4, p5, p6>> ]

\* score accumulates the points as they are pushed to breakdown; the total is
\* Math.max(0, Math.min(100, Math.round(score))).
calculateOutfitScore(cs, h) ==
    LET p1 == harmonyPoints(h)
        p2 == contrastPoints(cs)
        p3 == intensityPoints(cs)
        p4 == coherencePoints(cs)
        p5 == anchorPoints(cs)
        p6 == polishPoints(cs, h)
        sum == ((((0 + p1) + p2) + p3) + p4) + p5 + p6
    IN  [ total |-> Max2(0, Min2(100, sum)),
          breakdown |-> <<p1, p2, p3, p4, p5, p6>> ]

\* getGrade with the S tier's bound exclusive.
getGradeExclusiveS(sc) ==
    IF sc > 95 THEN "S"
    ELSE IF sc >= 90 THEN "A+"
    ELSE IF sc >= 85 THEN "A"
    ELSE IF sc >= 80 THEN "B+"
    ELSE IF sc >= 75 THEN "B"
    ELSE IF sc >= 70 THEN "C+"
    ELSE IF sc >= 65 THEN "C"
    ELSE IF sc >= 58 THEN "D+"
    ELSE IF sc >= 50 THEN "D"
    ELSE IF sc >= 40 THEN "E"
    ELSE "F"

getGrade(sc) ==
    IF sc >= 95 THEN "S"
    ELSE IF sc >= 90 THEN "A+"
    ELSE IF sc >= 85 THEN "A"
    ELSE IF sc >= 80 THEN "B+"
    ELSE IF sc >= 75 THEN "B"
    ELSE IF sc >= 70 THEN "C+"
    ELSE IF sc >= 65 THEN "C"
    ELSE IF sc >= 58 THEN "D+"
    ELSE IF sc >= 50 THEN "D"
    ELSE IF sc >= 40 THEN "E"
    ELSE "F"

(***************************************************************************)
(* ColorAnalysis.rgbToHsl.  With max, min the largest and smallest channel *)
(* and d their difference, l = (max + min) / 510, s = d / (510 - max -     *)
(* min) or d / (max + min), and h * 360 = 60 * (difference / d + sector).  *)
(* Math.round takes the nearest integer.  Where the exact quotient lies    *)
(* halfway between two integers the double the code rounds is off it by a  *)
(* rounding error of either sign (for (0, 13, 40) the exact hue is 220.5   *)
(* and the code returns 220), so there both neighbours are outcomes.       *)
(***************************************************************************)
RoundOutcomes(num, den) ==
    IF (2 * num) % (2 * den) = den
    THEN {num \div den, num \div den + 1}
    ELSE {(2 * num + den) \div (2 * den)}

\* rgbToHsl with the saturation of a dark colour, d / (max + min), used for
\* every lightness.
rgbToHslOneSaturation(r, g, b) ==
    LET max == Max2(r, Max2(g, b))
        min == Min2(r, Min2(g, b))
        d == max - min
        hNum == IF max = r THEN 60 * (g - b) + (IF g < b THEN 360 * d ELSE 0)
                ELSE IF max = g THEN 60 * (b - r) + 120 * d
                ELSE 60 * (r - g) + 240 * d
        hs == IF max # min THEN RoundOutcomes(hNum, d) ELSE {0}
        ss == IF max # min THEN RoundOutcomes(100 * d, max + min) ELSE {0}
        ls == RoundOutcomes(100 * (max + min), 510)
    IN  [h : hs, s : ss, l : ls]

rgbToHsl(r, g, b) ==
    LET max == Max2(r, Max2(g, b))
        min == Min2(r, Min2(g, b))
        d == max - min
        sDen == IF max + min > 255 THEN 510 - max - min ELSE max + min
        hNum == IF max = r THEN 60 * (g - b) + (IF g < b THEN 360 * d ELSE 0)
                ELSE IF max = g THEN 60 * (b - r) + 120 * d
                ELSE 60 * (r - g) + 240 * d
        hs == IF max # min THEN RoundOutcomes(hNum, d) ELSE {0}
        ss == IF max # min THEN RoundOutcomes(100 * d, sDen) ELSE {0}
        ls == RoundOutcomes(100 * (max + min), 510)
    IN  [h : hs, s : ss, l : ls]

(***************************************************************************)
(* Inputs                                                                  *)
(***************************************************************************)
HSL(h, s, l) == [h |-> h, s |-> s, l |-> l]

\* The three garments of an analysis (App._analyzeOutfit).
Garments == <<"top", "bottom", "shoes">>

\* Colours on both sides of every threshold of the classifier: achromatic and
\* near-black neutrals, the fashion neutrals, hues at the rule boundaries
\* (24/25, 60/61, 129/130, 150, 170/171, 180), muted colours of each
\* temperature, and saturation and lightness steps.
TestColors ==
    << HSL(0, 0, 5),     HSL(0, 0, 98),    HSL(0, 5, 50),    HSL(30, 15, 8),
       HSL(0, 0, 45),    HSL(220, 40, 20), HSL(40, 30, 60),  HSL(80, 30, 30),
       HSL(25, 40, 30),  HSL(220, 80, 20), HSL(0, 60, 50),   HSL(120, 60, 50),
       HSL(240, 60, 50), HSL(24, 60, 50),  HSL(25, 60, 50),  HSL(60, 60, 50),
       HSL(61, 60, 50),  HSL(129, 60, 50), HSL(130, 60, 50), HSL(150, 60, 50),
       HSL(170, 60, 50), HSL(171, 60, 50), HSL(180, 60, 50), HSL(360, 60, 50),
       HSL(60, 40, 50),  HSL(80, 40, 50),  HSL(160, 40, 50), HSL(180, 40, 50),
       HSL(260, 40, 50), HSL(310, 40, 50), HSL(61, 30, 50),  HSL(0, 80, 50),
       HSL(180, 80, 50), HSL(0, 50, 50),   HSL(0, 51, 50),   HSL(0, 60, 76),
       HSL(0, 86, 75),   HSL(100, 90, 90), HSL(300, 45, 40), HSL(200, 12, 93) >>

PaletteSize == 37

Palette == {TestColors[i] : i \in 1..PaletteSize}

ColorLists == UNION {[1..n -> Palette] : n \in 1..Len(Garments)}

\* Channel values of the RGB inputs: both ends of the range and a grid between.
ChannelEdge == 5

ChannelGrid == 17

Channels ==
    (0..ChannelEdge) \cup ((255 - ChannelEdge)..255)
        \cup {c \in 0..255 : c % ChannelGrid = 0}

(***************************************************************************)
(* The analysis pipeline (App._analyzeOutfit): analyzeHarmony, then        *)
(* calculateOutfitScore on its result, then getGrade on the total.         *)
(***************************************************************************)
NoResult == [type |-> None, score |-> 0]

NoScore == [total |-> 0, breakdown |-> <<>>]

NoColor == HSL(0, 0, 0)

Init ==
    /\ pc = "input"
    /\ colors \in ColorLists
    /\ neutrals = <<>>
    /\ chromatics = <<>>
    /\ harmony = NoResult
    /\ score = NoScore
    /\ grade = None
    /\ rgb = [r |-> 0, g |-> 0, b |-> 0]
    /\ hsl = NoColor
    /\ ExtIdle

AnalyzeHarmony ==
    /\ pc = "input"
    /\ neutrals' = neutralsOf(colors)
    /\ chromatics' = chromaticsOf(colors)
    /\ harmony' = analyzeHarmony(colors)
    /\ pc' = "analyzed"
    /\ UNCHANGED <<colors, score, grade, rgb, hsl, extVars>>

CalculateOutfitScore ==
    /\ pc = "analyzed"
    /\ score' = calculateOutfitScore(colors, harmony)
    /\ pc' = "scored"
    /\ UNCHANGED <<colors, neutrals, chromatics, harmony, grade, rgb, hsl, extVars>>

GetGrade ==
    /\ pc = "scored"
    /\ grade' = getGrade(score.total)
    /\ pc' = "graded"
    /\ UNCHANGED <<colors, neutrals, chromatics, harmony, score, rgb, hsl, extVars>>

Next == AnalyzeHarmony \/ CalculateOutfitScore \/ GetGrade

Spec == Init /\ [][Next]_vars

(***************************************************************************)
(* getGrade on every score of 0..100                                       *)
(***************************************************************************)
InitGrade ==
    /\ pc = "scored"
    /\ colors = <<>>
    /\ neutrals = <<>>
    /\ chromatics = <<>>
    /\ harmony = NoResult
    /\ score \in {[total |-> t, breakdown |-> <<>>] : t \in 0..100}
    /\ grade = None
    /\ rgb = [r |-> 0, g |-> 0, b |-> 0]
    /\ hsl = NoColor
    /\ ExtIdle

SpecGrade == InitGrade /\ [][GetGrade]_vars

(***************************************************************************)
(* rgbToHsl on a grid of RGB triples                                       *)
(***************************************************************************)
InitRgb ==
    /\ pc = "rgb"
    /\ colors = <<>>
    /\ neutrals = <<>>
    /\ chromatics = <<>>
    /\ harmony = NoResult
    /\ score = NoScore
    /\ grade = None
    /\ rgb \in [r : Channels, g : Channels, b : Channels]
    /\ hsl = NoColor
    /\ ExtIdle

RgbToHsl ==
    /\ pc = "rgb"
    /\ hsl' \in rgbToHsl(rgb.r, rgb.g, rgb.b)
    /\ pc' = "hsl"
    /\ UNCHANGED <<colors, neutrals, chromatics, harmony, score, grade, rgb, extVars>>

SpecRgb == InitRgb /\ [][RgbToHsl]_vars

(***************************************************************************)
(* The reference inverse, hslToRgb, of the round-trip test: with h in      *)
(* degrees and s, l in percent, q = l (1 + s) for l < 0.5 and l + s - l s  *)
(* otherwise, p = 2 l - q, and each channel is hue2rgb(p, q, t) for t =    *)
(* h + 1/3, h, h - 1/3 of a turn, times 255, rounded.  P and Q are p and q *)
(* in units of 1/10000 and T is t in degrees; hue2rgb is the channel in    *)
(* units of 1/600000.                                                      *)
(***************************************************************************)
HueScale == 600000

hue2rgb(P, Q, T) ==
    LET t1 == IF T < 0 THEN T + 360 ELSE T
        t == IF t1 > 360 THEN t1 - 360 ELSE t1
    IN  IF t < 60 THEN 60 * P + (Q - P) * t
        ELSE IF t < 180 THEN 60 * Q
        ELSE IF t < 240 THEN 60 * P + (Q - P) * (240 - t)
        ELSE 60 * P

hslToRgb(h, s, l) ==
    IF s = 0
    THEN LET gray == RoundOutcomes(255 * l, 100)
         IN  [r : gray, g : gray, b : gray]
    ELSE LET Q == IF l < 50 THEN l * (100 + s) ELSE 100 * l + 100 * s - l * s
             P == 200 * l - Q
         IN  [r : RoundOutcomes(255 * hue2rgb(P, Q, h + 120), HueScale),
              g : RoundOutcomes(255 * hue2rgb(P, Q, h), HueScale),
              b : RoundOutcomes(255 * hue2rgb(P, Q, h - 120), HueScale)]

\* The triples on which the round trip is furthest off, next to the grid.
RoundTripWorst ==
    { [r |-> 2, g |-> 228, b |-> 230], [r |-> 0, g |-> 125, b |-> 124] }

InitRoundTrip ==
    /\ pc = "rgb"
    /\ colors = <<>>
    /\ neutrals = <<>>
    /\ chromatics = <<>>
    /\ harmony = NoResult
    /\ score = NoScore
    /\ grade = None
    /\ rgb \in [r : Channels, g : Channels, b : Channels] \cup RoundTripWorst
    /\ hsl = NoColor
    /\ ExtIdle

HslToRgb ==
    /\ pc = "hsl"
    /\ args' = hsl
    /\ result' \in hslToRgb(hsl.h, hsl.s, hsl.l)
    /\ pc' = "rgb again"
    /\ UNCHANGED <<analysisVars, garmentVars, storeVars, cameraVars>>

NextRoundTrip == RgbToHsl \/ HslToRgb

SpecRoundTrip == InitRoundTrip /\ [][NextRoundTrip]_vars

(***************************************************************************)
(* GarmentDetection._isPattern.  A dominant colour is [rgb, hsl,           *)
(* frequency]; the frequency b.count / pixels.length is kept as the pair   *)
(* [num, den], and frequency < 0.25 is 4 num < den, frequency < 0.15 is    *)
(* 20 num < 3 den.  The argument is Given(list), or Null for a missing     *)
(* list.                                                                   *)
(***************************************************************************)
Frequency(count, total) == [num |-> count, den |-> total]

Given(list) == [null |-> FALSE, list |-> list]

Null == [null |-> TRUE, list |-> <<>>]

_isPatternStrictFrequency(dominantColors) ==
    IF dominantColors.null THEN FALSE
    ELSE IF Len(dominantColors.list) < 2 THEN FALSE
    ELSE LET c1 == dominantColors.list[1]
             c2 == dominantColors.list[2]
         IN  IF \/ 4 * c1.frequency.num <= c1.frequency.den
                \/ 20 * c2.frequency.num <= 3 * c2.frequency.den
             THEN FALSE
             ELSE LET hueDiff == hueDifference(c1.hsl.h, c2.hsl.h)
                      lightDiff == Abs(c1.hsl.l - c2.hsl.l)
                      satDiff == Abs(c1.hsl.s - c2.hsl.s)
                  IN  hueDiff > 25 \/ lightDiff > 25 \/ satDiff > 30

_isPattern(dominantColors) ==
    IF dominantColors.null THEN FALSE
    ELSE IF Len(dominantColors.list) < 2 THEN FALSE
    ELSE LET c1 == dominantColors.list[1]
             c2 == dominantColors.list[2]
         IN  IF \/ 4 * c1.frequency.num < c1.frequency.den
                \/ 20 * c2.frequency.num < 3 * c2.frequency.den
             THEN FALSE
             ELSE LET hueDiff == hueDifference(c1.hsl.h, c2.hsl.h)
                      lightDiff == Abs(c1.hsl.l - c2.hsl.l)
                      satDiff == Abs(c1.hsl.s - c2.hsl.s)
                  IN  hueDiff > 25 \/ lightDiff > 25 \/ satDiff > 30

\* Dominant colours around the thresholds: hues 25, 26 and 40 degrees from
\* the first (one across 0), lightness 25 and 26 away, saturation 30 and 31
\* away, and one that is 5 away in each; shares of 30, 25, 24, 20, 15 and 14
\* in a hundred sampled pixels.
PatternColors ==
    { HSL(100, 50, 50), HSL(125, 50, 50), HSL(126, 50, 50), HSL(140, 50, 50),
      HSL(105, 55, 55), HSL(100, 50, 75), HSL(100, 50, 76), HSL(100, 80, 50),
      HSL(100, 81, 50), HSL(350, 50, 50), HSL(10, 50, 50),  HSL(30, 50, 50) }

PatternShares == {30, 25, 24, 20, 15, 14}

SampleTotal == 100

Dominants ==
    { [hsl |-> c, frequency |-> Frequency(n, SampleTotal)] :
        c \in PatternColors, n \in PatternShares }

\* What _getDominantColorsFromPixels can return: at most three colours, the
\* most frequent first, their shares together at most the whole.
DominantLists ==
    { q \in UNION {[1..n -> Dominants] : n \in 0..2} :
        \A i \in 1..Len(q) - 1 : q[i].frequency.num >= q[i + 1].frequency.num }
    \cup
    { <<a, b, [hsl |-> HSL(0, 0, 5), frequency |-> Frequency(14, SampleTotal)]>> :
        a \in {d \in Dominants : d.frequency.num = 30},
        b \in {d \in Dominants : d.frequency.num \in {20, 15}} }

InitPattern ==
    /\ pc = "pattern"
    /\ colors = <<>>
    /\ neutrals = <<>>
    /\ chromatics = <<>>
    /\ harmony = NoResult
    /\ score = NoScore
    /\ grade = None
    /\ rgb = [r |-> 0, g |-> 0, b |-> 0]
    /\ hsl = NoColor
    /\ args \in {Given(q) : q \in DominantLists} \cup {Null}
    /\ result = None
    /\ GarmentIdle
    /\ StoreIdle
    /\ CameraIdle

IsPattern ==
    /\ pc = "pattern"
    /\ result' = _isPattern(args)
    /\ pc' = "pattern done"
    /\ UNCHANGED <<analysisVars, args, garmentVars, storeVars, cameraVars>>

SpecPattern == InitPattern /\ [][IsPattern]_vars

(***************************************************************************)
(* GarmentDetection._trimmedMean: sort ascending, drop floor(10%) of the   *)
(* values at each end, round the mean of the rest.  Math.floor(n * 0.1)    *)
(* equals n \div 10 for every length an image can give, and Math.round of  *)
(* the mean is the half-up rounding of sum / count.                        *)
(***************************************************************************)
\* [...values].sort((a, b) => a - b): position p holds the value v with fewer
\* than p values below it and at least p values not above it.
SortAscending(q) ==
    [p \in 1..Len(q) |->
        CHOOSE v \in Range(q) :
            /\ Cardinality({i \in 1..Len(q) : q[i] < v}) < p
            /\ p <= Cardinality({i \in 1..Len(q) : q[i] <= v})]

RoundHalfUp(num, den) == (2 * num + den) \div (2 * den)

_trimmedMeanLowEndOnly(values) ==
    IF Len(values) = 0 THEN 128
    ELSE LET sorted == SortAscending(values)
             trim == Len(sorted) \div 10
             trimmed == SubSeq(sorted, trim + 1, Len(sorted))
         IN  IF Len(trimmed) = 0 THEN sorted[Len(sorted) \div 2 + 1]
             ELSE RoundHalfUp(SeqSum(trimmed), Len(trimmed))

_trimmedMean(values) ==
    IF Len(values) = 0 THEN 128
    ELSE LET sorted == SortAscending(values)
             trim == Len(sorted) \div 10
             trimmed == SubSeq(sorted, trim + 1, Len(sorted) - trim)
         IN  IF Len(trimmed) = 0 THEN sorted[Len(sorted) \div 2 + 1]
             ELSE RoundHalfUp(SeqSum(trimmed), Len(trimmed))

\* Channel values: the ends of the range and two neighbours, so that a mean
\* can fall on a half.
ChannelSamples == {0, 1, 255}

MaxValues == 10

FlatValues == 100

ValueLists ==
    UNION {[1..n -> ChannelSamples] : n \in 0..MaxValues}
        \cup {[i \in 1..FlatValues |-> 50]}

InitTrimmedMean ==
    /\ pc = "values"
    /\ colors = <<>>
    /\ neutrals = <<>>
    /\ chromatics = <<>>
    /\ harmony = NoResult
    /\ score = NoScore
    /\ grade = None
    /\ rgb = [r |-> 0, g |-> 0, b |-> 0]
    /\ hsl = NoColor
    /\ args \in ValueLists
    /\ result = None
    /\ GarmentIdle
    /\ StoreIdle
    /\ CameraIdle

TrimmedMean ==
    /\ pc = "values"
    /\ result' = _trimmedMean(args)
    /\ pc' = "mean"
    /\ UNCHANGED <<analysisVars, args, garmentVars, storeVars, cameraVars>>

SpecTrimmedMean == InitTrimmedMean /\ [][TrimmedMean]_vars

(***************************************************************************)
(* ColorAnalysis.getColorDescription and _getHueName.  A name is a string; *)
(* a modifier and a hue name are joined with a space, as the template      *)
(* literals do.                                                            *)
(***************************************************************************)
\* _getHueName with the last band opened at 330 exclusive.
_getHueNameGapAtRose(h, s, l) ==
    IF h >= 345 \/ h < 8 THEN
        IF l < 30 /\ s > 30 THEN "Maroon"
        ELSE IF l < 40 /\ s > 40 THEN "Burgundy"
        ELSE IF s > 60 /\ l > 40 THEN "Red"
        ELSE "Red"
    ELSE IF h >= 8 /\ h < 20 THEN
        IF l > 60 /\ s > 50 THEN "Coral"
        ELSE IF l < 35 THEN "Rust"
        ELSE "Red-Orange"
    ELSE IF h >= 20 /\ h < 40 THEN
        IF l < 35 /\ s >= 20 THEN "Brown"
        ELSE IF l >= 35 /\ l < 50 /\ s < 50 THEN "Tan"
        ELSE IF s > 60 /\ l > 55 THEN "Orange"
        ELSE IF l > 70 THEN "Peach"
        ELSE "Orange"
    ELSE IF h >= 40 /\ h < 50 THEN
        IF l < 40 THEN "Dark Gold"
        ELSE IF s > 50 THEN "Gold"
        ELSE IF l > 75 THEN "Beige"
        ELSE "Gold"
    ELSE IF h >= 50 /\ h < 70 THEN
        IF l < 40 /\ s < 50 THEN "Olive"
        ELSE IF s < 40 /\ l > 60 THEN "Khaki"
        ELSE IF l > 75 THEN "Lemon"
        ELSE "Yellow"
    ELSE IF h >= 70 /\ h < 90 THEN
        IF l < 40 THEN "Olive"
        ELSE IF s > 50 THEN "Lime"
        ELSE "Yellow-Green"
    ELSE IF h >= 90 /\ h < 160 THEN
        IF l < 25 /\ s < 50 THEN "Forest Green"
        ELSE IF l < 35 THEN "Dark Green"
        ELSE IF h >= 140 /\ s > 30 THEN "Emerald"
        ELSE IF s > 50 /\ l > 40 THEN "Green"
        ELSE IF s < 35 THEN "Sage"
        ELSE "Green"
    ELSE IF h >= 160 /\ h < 185 THEN
        IF l < 35 THEN "Dark Teal" ELSE "Teal"
    ELSE IF h >= 185 /\ h < 200 THEN
        IF l > 70 THEN "Light Cyan" ELSE "Cyan"
    ELSE IF h >= 200 /\ h < 250 THEN
        IF l < 20 /\ s > 25 THEN "Navy"
        ELSE IF l < 35 /\ s > 20 THEN "Dark Blue"
        ELSE IF h >= 220 /\ h < 245 /\ s > 50 THEN "Royal Blue"
        ELSE IF l > 65 THEN "Sky Blue"
        ELSE IF s < 35 THEN "Steel Blue"
        ELSE "Blue"
    ELSE IF h >= 250 /\ h < 270 THEN
        IF l < 30 THEN "Dark Indigo" ELSE "Indigo"
    ELSE IF h >= 270 /\ h < 300 THEN
        IF l < 30 THEN "Dark Purple"
        ELSE IF l > 70 THEN "Lavender"
        ELSE IF s > 50 THEN "Purple"
        ELSE "Mauve"
    ELSE IF h >= 300 /\ h < 330 THEN
        IF s > 60 /\ l > 40 THEN "Magenta"
        ELSE IF l > 70 THEN "Pink"
        ELSE IF l < 35 THEN "Plum"
        ELSE "Pink"
    ELSE IF h > 330 /\ h < 345 THEN
        IF l > 65 THEN "Rose"
        ELSE IF l < 30 THEN "Wine"
        ELSE IF s > 50 THEN "Hot Pink"
        ELSE "Rose"
    ELSE "Unknown"

_getHueName(h, s, l) ==
    IF h >= 345 \/ h < 8 THEN
        IF l < 30 /\ s > 30 THEN "Maroon"
        ELSE IF l < 40 /\ s > 40 THEN "Burgundy"
        ELSE IF s > 60 /\ l > 40 THEN "Red"
        ELSE "Red"
    ELSE IF h >= 8 /\ h < 20 THEN
        IF l > 60 /\ s > 50 THEN "Coral"
        ELSE IF l < 35 THEN "Rust"
        ELSE "Red-Orange"
    ELSE IF h >= 20 /\ h < 40 THEN
        IF l < 35 /\ s >= 20 THEN "Brown"
        ELSE IF l >= 35 /\ l < 50 /\ s < 50 THEN "Tan"
        ELSE IF s > 60 /\ l > 55 THEN "Orange"
        ELSE IF l > 70 THEN "Peach"
        ELSE "Orange"
    ELSE IF h >= 40 /\ h < 50 THEN
        IF l < 40 THEN "Dark Gold"
        ELSE IF s > 50 THEN "Gold"
        ELSE IF l > 75 THEN "Beige"
        ELSE "Gold"
    ELSE IF h >= 50 /\ h < 70 THEN
        IF l < 40 /\ s < 50 THEN "Olive"
        ELSE IF s < 40 /\ l > 60 THEN "Khaki"
        ELSE IF l > 75 THEN "Lemon"
        ELSE "Yellow"
    ELSE IF h >= 70 /\ h < 90 THEN
        IF l < 40 THEN "Olive"
        ELSE IF s > 50 THEN "Lime"
        ELSE "Yellow-Green"
    ELSE IF h >= 90 /\ h < 160 THEN
        IF l < 25 /\ s < 50 THEN "Forest Green"
        ELSE IF l < 35 THEN "Dark Green"
        ELSE IF h >= 140 /\ s > 30 THEN "Emerald"
        ELSE IF s > 50 /\ l > 40 THEN "Green"
        ELSE IF s < 35 THEN "Sage"
        ELSE "Green"
    ELSE IF h >= 160 /\ h < 185 THEN
        IF l < 35 THEN "Dark Teal" ELSE "Teal"
    ELSE IF h >= 185 /\ h < 200 THEN
        IF l > 70 THEN "Light Cyan" ELSE "Cyan"
    ELSE IF h >= 200 /\ h < 250 THEN
        IF l < 20 /\ s > 25 THEN "Navy"
        ELSE IF l < 35 /\ s > 20 THEN "Dark Blue"
        ELSE IF h >= 220 /\ h < 245 /\ s > 50 THEN "Royal Blue"
        ELSE IF l > 65 THEN "Sky Blue"
        ELSE IF s < 35 THEN "Steel Blue"
        ELSE "Blue"
    ELSE IF h >= 250 /\ h < 270 THEN
        IF l < 30 THEN "Dark Indigo" ELSE "Indigo"
    ELSE IF h >= 270 /\ h < 300 THEN
        IF l < 30 THEN "Dark Purple"
        ELSE IF l > 70 THEN "Lavender"
        ELSE IF s > 50 THEN "Purple"
        ELSE "Mauve"
    ELSE IF h >= 300 /\ h < 330 THEN
        IF s > 60 /\ l > 40 THEN "Magenta"
        ELSE IF l > 70 THEN "Pink"
        ELSE IF l < 35 THEN "Plum"
        ELSE "Pink"
    ELSE IF h >= 330 /\ h < 345 THEN
        IF l > 65 THEN "Rose"
        ELSE IF l < 30 THEN "Wine"
        ELSE IF s > 50 THEN "Hot Pink"
        ELSE "Rose"
    ELSE "Unknown"

getColorDescription(color) ==
    LET h == color.hsl.h
        s == color.hsl.s
        l == color.hsl.l
    IN  IF s < 8 THEN
            IF l < 8 THEN "Black"
            ELSE IF l < 20 THEN "Charcoal"
            ELSE IF l < 35 THEN "Dark Gray"
            ELSE IF l < 50 THEN "Gray"
            ELSE IF l < 65 THEN "Silver"
            ELSE IF l < 80 THEN "Light Gray"
            ELSE IF l < 92 THEN "Off-White"
            ELSE "White"
        ELSE IF s < 15 THEN
            IF l < 15 THEN "Near Black"
            ELSE IF l > 85 THEN "Off-White"
            ELSE IF h >= 20 /\ h < 50 /\ l >= 60 THEN "Cream"
            ELSE IF h >= 20 /\ h < 50 /\ l < 60 THEN "Taupe"
            ELSE "Gray"
        ELSE LET hueName == _getHueName(h, s, l)
             IN  IF l < 18 THEN "Very Dark " \o hueName
                 ELSE IF l < 30 THEN "Dark " \o hueName
                 ELSE IF l > 82 THEN "Pale " \o hueName
                 ELSE IF l > 70 THEN "Light " \o hueName
                 ELSE IF s < 25 THEN "Muted " \o hueName
                 ELSE IF s > 80 THEN "Vivid " \o hueName
                 ELSE IF s > 65 THEN "Vibrant " \o hueName
                 ELSE hueName

\* Hues: every degree of 0..360.  Saturation and lightness: both sides of
\* every threshold of the two functions, and the ends of the range.
NameSaturations ==
    {0, 7, 8, 14, 15, 19, 20, 21, 24, 25, 26, 30, 31, 34, 35, 39, 40, 41,
     49, 50, 51, 60, 61, 65, 66, 80, 81, 100}

NameLightnesses ==
    {0, 7, 8, 14, 15, 17, 18, 19, 20, 24, 25, 29, 30, 34, 35, 39, 40, 41,
     49, 50, 55, 56, 59, 60, 61, 64, 65, 66, 70, 71, 75, 76, 79, 80, 82, 83,
     85, 86, 91, 92, 100}

MaxHue == 360

InitDescription ==
    /\ pc = "color"
    /\ colors = <<>>
    /\ neutrals = <<>>
    /\ chromatics = <<>>
    /\ harmony = NoResult
    /\ score = NoScore
    /\ grade = None
    /\ rgb = [r |-> 0, g |-> 0, b |-> 0]
    /\ hsl \in [h : 0..MaxHue, s : NameSaturations, l : NameLightnesses]
    /\ ExtIdle

GetColorDescription ==
    /\ pc = "color"
    /\ args' = [hsl |-> hsl]
    /\ result' = getColorDescription([hsl |-> hsl])
    /\ pc' = "described"
    /\ UNCHANGED <<analysisVars, garmentVars, storeVars, cameraVars>>

SpecDescription == InitDescription /\ [][GetColorDescription]_vars

(***************************************************************************)
(* A canvas: width, height, whether its pixels can be read (getImageData   *)
(* throws on a canvas that cannot), and its image.  An image is given by   *)
(* its kind: "columns" (column x is gray of level levels[x + 1]), "flat"   *)
(* (one RGBA pixel everywhere) or "rows" (row y is pixels[y % n + 1]).     *)
(***************************************************************************)
RGBA(r, g, b, a) == [r |-> r, g |-> g, b |-> b, a |-> a]

Gray(level) == RGBA(level, level, level, 255)

pixelAt(cv, x, y) ==
    IF cv.image.kind = "columns" THEN Gray(cv.image.levels[x + 1])
    ELSE IF cv.image.kind = "flat" THEN cv.image.pixel
    ELSE cv.image.pixels[(y % Len(cv.image.pixels)) + 1]

\* ctx.getImageData(x, y, w, h).data, one RGBA pixel per element, row by row.
getImageData(cv, x, y, w, h) ==
    [i \in 1..(w * h) |-> pixelAt(cv, x + ((i - 1) % w), y + ((i - 1) \div w))]

(***************************************************************************)
(* GarmentDetection._detectBodyColumn.  The luminance 0.299 r + 0.587 g +  *)
(* 0.114 b is kept in thousandths, and a column's brightness, sum / count, *)
(* as its sum: every column has the same count, so brightness and edge     *)
(* strength are in units of 1 / (1000 count), in which the sums are exact  *)
(* and avgEdge < 3 reads maxSum < 3 * 1000 * count * windowSize.  A result *)
(* is [null |-> TRUE] or [null |-> FALSE, x, width].                       *)
(***************************************************************************)
LumaScale == 1000

luminance(px) == 299 * px.r + 587 * px.g + 114 * px.b

NoBody == [null |-> TRUE, x |-> 0, width |-> 0]

Body(x, width) == [null |-> FALSE, x |-> x, width |-> width]

stripRows(stripH) == {y \in 0..(stripH - 1) : y % 4 = 0}

RECURSIVE columnSum(_, _, _, _)
columnSum(cv, x, stripY, rows) ==
    IF rows = {} THEN 0
    ELSE LET y == CHOOSE r \in rows : TRUE
         IN  luminance(pixelAt(cv, x, stripY + y)) + columnSum(cv, x, stripY, rows \ {y})

\* An array filled by a loop: the sequence of its elements.
ArrayOf(f) == SubSeq(f, 1, Len(f))

\* columnBrightness, indexed from 1 (column x is element x + 1).
columnBrightness(cv) ==
    LET stripY == (3 * cv.height) \div 10
        stripH == (4 * cv.height) \div 10
    IN  ArrayOf([i \in 1..cv.width |-> columnSum(cv, i - 1, stripY, stripRows(stripH))])

edgeStrength(cv) ==
    LET brightness == columnBrightness(cv)
    IN  ArrayOf([i \in 1..cv.width |->
                    IF i = 1 \/ i = cv.width THEN 0
                    ELSE Abs(brightness[i + 1] - brightness[i - 1])])

RECURSIVE firstWindow(_, _)
firstWindow(edges, windowSize) ==
    IF windowSize = 0 THEN 0
    ELSE firstWindow(edges, windowSize - 1) + edges[windowSize]

\* The sliding loop from i on, with the loop's three variables.
RECURSIVE slideNotStrict(_, _, _, _, _, _)
slideNotStrict(edges, windowSize, i, currentSum, maxSum, maxStart) ==
    IF i > Len(edges) - windowSize
    THEN [maxSum |-> maxSum, maxStart |-> maxStart]
    ELSE LET sum == currentSum - edges[i] + edges[i + windowSize]
         IN  IF sum >= maxSum
             THEN slideNotStrict(edges, windowSize, i + 1, sum, sum, i)
             ELSE slideNotStrict(edges, windowSize, i + 1, sum, maxSum, maxStart)

RECURSIVE slide(_, _, _, _, _, _)
slide(edges, windowSize, i, currentSum, maxSum, maxStart) ==
    IF i > Len(edges) - windowSize
    THEN [maxSum |-> maxSum, maxStart |-> maxStart]
    ELSE LET sum == currentSum - edges[i] + edges[i + windowSize]
         IN  IF sum > maxSum
             THEN slide(edges, windowSize, i + 1, sum, sum, i)
             ELSE slide(edges, windowSize, i + 1, sum, maxSum, maxStart)

\* The densest window: maxSum and maxStart after the scan.
densestWindow(edges, windowSize) ==
    LET first == firstWindow(edges, windowSize)
    IN  slide(edges, windowSize, 1, first, first, 0)

\* getImageData is reached, and throws on a canvas that cannot be read.
bodyColumnThrows(cv) ==
    /\ ~((4 * cv.height) \div 10 < 10 \/ cv.width < 20)
    /\ ~cv.readable

_detectBodyColumn(cv) ==
    LET stripH == (4 * cv.height) \div 10
        windowSize == cv.width \div 2
    IN  IF stripH < 10 \/ cv.width < 20 THEN NoBody
        ELSE IF windowSize < 10 THEN NoBody
        ELSE LET scan == densestWindow(edgeStrength(cv), windowSize)
                 count == Cardinality(stripRows(stripH))
             IN  IF scan.maxSum < 3 * LumaScale * count * windowSize THEN NoBody
                 ELSE LET padding == (5 * cv.width) \div 100
                          resultX == Max2(0, scan.maxStart - padding)
                          resultW == Min2(cv.width - resultX, windowSize + padding * 2)
                      IN  Body(resultX, resultW)

\* Images of gray columns in three vertical bands: the first `a` columns at
\* level u, the columns up to `c` at v, the rest at w.
Bands(width, a, c, u, v, w) ==
    [kind |-> "columns",
     levels |-> ArrayOf([i \in 1..width |->
                            IF i <= a THEN u ELSE IF i <= c THEN v ELSE w])]

Canvas(width, height, readable, image) ==
    [width |-> width, height |-> height, readable |-> readable, image |-> image]

\* Gray levels: steps of 4 are too faint for a body column, steps of 20 and
\* more are not.
BandLevels == {0, 4, 20, 100}

\* Widths from the least that is scanned, at the least height whose strip
\* has ten rows; and the sizes just below, which are not scanned.
BodyWidths == {20, 21, 23}

ScanHeight == 25

BodyCanvases ==
    { Canvas(t[1], ScanHeight, TRUE, Bands(t[1], t[2], t[3], t[4], t[5], t[6])) :
        t \in { q \in BodyWidths \X (0..23) \X (0..23)
                        \X BandLevels \X BandLevels \X BandLevels :
                  q[2] <= q[3] /\ q[3] <= q[1] } }
    \cup
    { Canvas(wh[1], wh[2], TRUE, Bands(wh[1], a, wh[1], 0, 100, 0)) :
        wh \in {<<19, ScanHeight>>, <<20, ScanHeight - 1>>}, a \in 0..19 }

InitBody ==
    /\ pc = "canvas"
    /\ colors = <<>>
    /\ neutrals = <<>>
    /\ chromatics = <<>>
    /\ harmony = NoResult
    /\ score = NoScore
    /\ grade = None
    /\ rgb = [r |-> 0, g |-> 0, b |-> 0]
    /\ hsl = NoColor
    /\ args = None
    /\ result = None
    /\ canvas \in BodyCanvases
    /\ configZones = DefaultZones
    /\ body = None
    /\ zones = None
    /\ StoreIdle
    /\ CameraIdle

\* _detectBodyColumn(canvas): its edgeStrength array and the scan's maxSum and
\* maxStart, where the scan is reached, and the returned bounds.
DetectBodyColumn ==
    /\ pc = "canvas"
    /\ ~bodyColumnThrows(canvas)
    /\ body' = LET scanned == canvas.width >= 20 /\ (4 * canvas.height) \div 10 >= 10
                    edges == IF scanned THEN edgeStrength(canvas) ELSE <<>>
                IN  [scanned |-> scanned,
                     edgeStrength |-> edges,
                     scan |-> IF scanned
                              THEN densestWindow(edges, canvas.width \div 2)
                              ELSE [maxSum |-> 0, maxStart |-> 0],
                     bounds |-> _detectBodyColumn(canvas)]
    /\ pc' = "body"
    /\ UNCHANGED <<analysisVars, args, result, canvas, configZones, zones, storeVars, cameraVars>>

SpecBody == InitBody /\ [][DetectBodyColumn]_vars

(***************************************************************************)
(* GarmentDetection.detectZones.  The fractions of _config are kept in     *)
(* hundredths.  Math.floor(height * yStart), Math.floor(width * 0.2),      *)
(* Math.floor(width * (1 - 2 * 0.2)) and Math.floor(zoneH * 0.1) equal the *)
(* integer quotients for the sizes used here; the double yEnd - yStart is  *)
(* a little less than the decimal difference for two of the default bands  *)
(* and one of the README's, and the floor of its product with the height   *)
(* is then one less than the integer quotient at the heights listed in     *)
(* ShortSpans (all such heights below 400).                                *)
(***************************************************************************)
ShortSpans ==
    {<<8, 42, h>> : h \in {150, 250, 300, 350}}
    \cup {<<78, 97, h>> : h \in {100, 200, 300}}
    \cup {<<80, 98, h>> : h \in {50, 100, 150, 200, 250, 300, 350}}

\* Math.floor(height * (zCfg.yEnd - zCfg.yStart))
spanFloor(height, zCfg) ==
    ((height * (zCfg.yEnd - zCfg.yStart)) \div 100)
        - (IF <<zCfg.yStart, zCfg.yEnd, height>> \in ShortSpans THEN 1 ELSE 0)

\* One zone of detectZones, as the loop body builds it.
buildZone(cv, zCfg, sampleX, sampleWidth) ==
    LET zoneY == (cv.height * zCfg.yStart) \div 100
        zoneH == spanFloor(cv.height, zCfg)
        vInset == zoneH \div 10
        innerY == zoneY + vInset
        innerH == Max2(1, zoneH - vInset * 2)
    IN  [x |-> 0, y |-> zoneY, width |-> cv.width, height |-> zoneH,
         label |-> zCfg.label,
         samplingRect |-> [x |-> sampleX, y |-> innerY,
                           width |-> sampleWidth, height |-> innerH]]

\* detectZones without the least sampling width of 1.
detectZonesNoLeastWidth(cv, smartCrop, cfgZones) ==
    LET bodyBounds == IF smartCrop THEN _detectBodyColumn(cv) ELSE NoBody
        found == smartCrop /\ ~bodyBounds.null
        sampleX0 == IF found THEN bodyBounds.x ELSE (20 * cv.width) \div 100
        sampleWidth0 == IF found THEN bodyBounds.width ELSE (60 * cv.width) \div 100
        sampleX == Max2(0, sampleX0)
        sampleWidth == Min2(sampleWidth0, cv.width - sampleX)
    IN  [key \in {"top", "bottom", "shoes"} |->
            buildZone(cv, cfgZones[key], sampleX, sampleWidth)]

\* detectZones(canvas, {smartCrop}) under the zones of _config.
detectZones(cv, smartCrop, cfgZones) ==
    LET bodyBounds == IF smartCrop THEN _detectBodyColumn(cv) ELSE NoBody
        found == smartCrop /\ ~bodyBounds.null
        sampleX0 == IF found THEN bodyBounds.x ELSE (20 * cv.width) \div 100
        sampleWidth0 == IF found THEN bodyBounds.width ELSE (60 * cv.width) \div 100
        sampleX == Max2(0, sampleX0)
        sampleWidth == Max2(1, Min2(sampleWidth0, cv.width - sampleX))
    IN  [key \in {"top", "bottom", "shoes"} |->
            buildZone(cv, cfgZones[key], sampleX, sampleWidth)]

\* detectZones throws where _detectBodyColumn's getImageData does.
detectZonesThrows(cv, smartCrop) == smartCrop /\ bodyColumnThrows(cv)

\* An image of one colour.
Flat(px) == [kind |-> "flat", pixel |-> px]

SmallWidths == {1, 2, 5, 19}

ZoneHeights == {1, 2, 3, 4, 5, 9, 10, 24, 100, 150}

CropHeights == {25, 50, 150}

\* Canvases too small for the body scan, of every small shape, and canvases
\* that are scanned, with and without a body column.
ZoneCanvases ==
    { Canvas(w, h, TRUE, Flat(Gray(100))) : w \in SmallWidths, h \in ZoneHeights }
    \cup
    { Canvas(20, t[1], TRUE, Bands(20, t[2], t[3], 0, t[4], 0)) :
        t \in { q \in CropHeights \X (0..20) \X (0..20) \X {4, 100} : q[2] <= q[3] } }
    \cup
    { Canvas(20, h, FALSE, Flat(Gray(100))) : h \in {24, 25} }

InitZones ==
    /\ pc = "canvas"
    /\ colors = <<>>
    /\ neutrals = <<>>
    /\ chromatics = <<>>
    /\ harmony = NoResult
    /\ score = NoScore
    /\ grade = None
    /\ rgb = [r |-> 0, g |-> 0, b |-> 0]
    /\ hsl = NoColor
    /\ args = None
    /\ result = None
    /\ canvas \in ZoneCanvases
    /\ configZones = DefaultZones
    /\ body = None
    /\ zones = None
    /\ StoreIdle
    /\ CameraIdle

\* detectZones(canvas, {smartCrop}); args keeps the option, body the outcome
\* of the body-column detection when it is made.
DetectZones ==
    /\ pc \in {"canvas", "proportions", "proportions threw"}
    /\ \E smartCrop \in BOOLEAN :
        /\ args' = [smartCrop |-> smartCrop]
        /\ IF detectZonesThrows(canvas, smartCrop)
           THEN /\ pc' = "zones threw"
                /\ UNCHANGED <<body, zones>>
           ELSE /\ pc' = "zones"
                /\ body' = IF smartCrop THEN [bounds |-> _detectBodyColumn(canvas)]
                           ELSE [bounds |-> NoBody]
                /\ zones' = detectZones(canvas, smartCrop, configZones)
    /\ UNCHANGED <<analysisVars, result, canvas, configZones, storeVars, cameraVars>>

SpecZones == InitZones /\ [][DetectZones]_vars

(***************************************************************************)
(* GarmentDetection.detectZonesWithProportions: _config.zones is replaced, *)
(* detectZones(canvas) is called with its default smartCrop, and the       *)
(* original zones are put back after the call has returned.                *)
(***************************************************************************)
Proportions(topStart, topEnd, bottomEnd, shoesEnd) ==
    [topStart |-> topStart, topEnd |-> topEnd,
     bottomEnd |-> bottomEnd, shoesEnd |-> shoesEnd]

\* The parameter defaults, and the proportions of the README's example.
ProportionChoices == {Proportions(8, 42, 78, 97), Proportions(5, 45, 80, 98)}

\* The zones written to _config for the call.
overrideZones(original, p) ==
    [top    |-> [original.top    EXCEPT !.yStart = p.topStart,  !.yEnd = p.topEnd],
     bottom |-> [original.bottom EXCEPT !.yStart = p.topEnd,    !.yEnd = p.bottomEnd],
     shoes  |-> [original.shoes  EXCEPT !.yStart = p.bottomEnd, !.yEnd = p.shoesEnd]]

ProportionCanvases ==
    ZoneCanvases
    \cup { Canvas(w, h, FALSE, Flat(Gray(100))) : w \in {19, 20, 23}, h \in {24, 25, 50} }

InitProportions ==
    /\ pc = "canvas"
    /\ colors = <<>>
    /\ neutrals = <<>>
    /\ chromatics = <<>>
    /\ harmony = NoResult
    /\ score = NoScore
    /\ grade = None
    /\ rgb = [r |-> 0, g |-> 0, b |-> 0]
    /\ hsl = NoColor
    /\ args = None
    /\ result = None
    /\ canvas \in ProportionCanvases
    /\ configZones = DefaultZones
    /\ body = None
    /\ zones = None
    /\ StoreIdle
    /\ CameraIdle

\* detectZonesWithProportions(canvas, proportions).  When detectZones throws,
\* the statements after the call, the restore among them, are not run.
DetectZonesWithProportions ==
    /\ pc = "canvas"
    /\ \E p \in ProportionChoices :
        LET original == configZones
            override == overrideZones(original, p)
        IN  /\ args' = p
            /\ IF detectZonesThrows(canvas, TRUE)
               THEN /\ pc' = "proportions threw"
                    /\ configZones' = override
                    /\ UNCHANGED <<body, zones>>
               ELSE /\ pc' = "proportions"
                    /\ body' = [bounds |-> _detectBodyColumn(canvas)]
                    /\ zones' = detectZones(canvas, TRUE, override)
                    /\ configZones' = original
    /\ UNCHANGED <<analysisVars, result, canvas, storeVars, cameraVars>>

NextProportions == DetectZonesWithProportions \/ DetectZones

SpecProportions == InitProportions /\ [][NextProportions]_vars

(***************************************************************************)
(* GarmentDetection.extractZoneColors.  A pixel list is a sequence of      *)
(* [r, g, b].  rgbToHsl has two outcomes where its quotient is a tie, so   *)
(* every operator that uses it gives the set of its outcomes.  The         *)
(* confidence is kept in hundredths; the distances Math.sqrt gives are     *)
(* irrational, so the sum of distances is enclosed between two sums in     *)
(* hundredths and every rounding the enclosure allows is an outcome.       *)
(***************************************************************************)
RGB(r, g, b) == [r |-> r, g |-> g, b |-> b]

\* const rect = zone.samplingRect || {x, y, width, height}
rectOf(zone) ==
    IF "samplingRect" \in DOMAIN zone THEN zone.samplingRect
    ELSE [x |-> zone.x, y |-> zone.y, width |-> zone.width, height |-> zone.height]

Opaque(px) == px.a >= 128

DropAlpha(px) == RGB(px.r, px.g, px.b)

\* _getPixelData that keeps the transparent pixels.
_getPixelDataKeepsTransparent(cv, rect) ==
    LET x == Max2(0, rect.x)
        y == Max2(0, rect.y)
        w == Min2(rect.width, cv.width - x)
        h == Min2(rect.height, cv.height - y)
    IN  IF w <= 0 \/ h <= 0 THEN <<>>
        ELSE LET data == getImageData(cv, x, y, w, h)
                 sampled == ArrayOf([k \in 1..((w * h + 3) \div 4) |-> data[4 * (k - 1) + 1]])
             IN  ArrayOf([k \in 1..Len(sampled) |-> DropAlpha(sampled[k])])

\* _getPixelData(canvas, rect): every fourth pixel of the clamped rectangle,
\* row by row, the transparent ones left out.
_getPixelData(cv, rect) ==
    LET x == Max2(0, rect.x)
        y == Max2(0, rect.y)
        w == Min2(rect.width, cv.width - x)
        h == Min2(rect.height, cv.height - y)
    IN  IF w <= 0 \/ h <= 0 THEN <<>>
        ELSE LET data == getImageData(cv, x, y, w, h)
                 sampled == SelectSeq(
                     ArrayOf([k \in 1..((w * h + 3) \div 4) |-> data[4 * (k - 1) + 1]]),
                     Opaque)
             IN  ArrayOf([k \in 1..Len(sampled) |-> DropAlpha(sampled[k])])

\* _config.skinRanges
skinRanges ==
    {[hMin |-> 5,  hMax |-> 45, sMin |-> 15, sMax |-> 70, lMin |-> 20, lMax |-> 80],
     [hMin |-> 15, hMax |-> 40, sMin |-> 20, sMax |-> 60, lMin |-> 10, lMax |-> 50]}

\* _isSkinColor, from the converted colour on.
inSkinRange(c) ==
    \E range \in skinRanges :
        /\ c.h >= range.hMin /\ c.h <= range.hMax
        /\ c.s >= range.sMin /\ c.s <= range.sMax
        /\ c.l >= range.lMin /\ c.l <= range.lMax

\* The outcomes of _isSkinColor(pixel).
_isSkinColor(pixel) == {inSkinRange(c) : c \in rgbToHsl(pixel.r, pixel.g, pixel.b)}

\* The verdicts _isSkinColor can give on the colours of a list, one for each
\* colour: the same pixel value is judged the same way each time.
skinVerdicts(pixels) ==
    {f \in [Range(pixels) -> BOOLEAN] : \A px \in Range(pixels) : f[px] \in _isSkinColor(px)}

\* _rejectSkinPixels under one verdict.
_rejectSkinPixels(pixels, isSkin) ==
    LET Kept(px) == ~isSkin[px]
    IN  SelectSeq(pixels, Kept)

_getDominantFromPixels(pixels) ==
    IF Len(pixels) = 0 THEN RGB(128, 128, 128)
    ELSE RGB(_trimmedMean([i \in 1..Len(pixels) |-> pixels[i].r]),
             _trimmedMean([i \in 1..Len(pixels) |-> pixels[i].g]),
             _trimmedMean([i \in 1..Len(pixels) |-> pixels[i].b]))

HexDigits == <<"0", "1", "2", "3", "4", "5", "6", "7",
               "8", "9", "a", "b", "c", "d", "e", "f">>

\* x.toString(16).padStart(2, '0')
hexByte(x) == HexDigits[(x \div 16) + 1] \o HexDigits[(x % 16) + 1]

rgbToHex(r, g, b) == "#" \o hexByte(r) \o hexByte(g) \o hexByte(b)

\* The bucket key of a pixel: each channel >> 4.
bucketKey(px) == <<px.r \div 16, px.g \div 16, px.b \div 16>>

\* The bucket of a key: where the Map first got it, its count and totals.
bucketOf(pixels, key) ==
    LET members == {i \in 1..Len(pixels) : bucketKey(pixels[i]) = key}
    IN  [first  |-> SetMin(members),
         count  |-> Cardinality(members),
         totalR |-> SeqSum(ArrayOf([i \in 1..Len(pixels) |-> IF i \in members THEN pixels[i].r ELSE 0])),
         totalG |-> SeqSum(ArrayOf([i \in 1..Len(pixels) |-> IF i \in members THEN pixels[i].g ELSE 0])),
         totalB |-> SeqSum(ArrayOf([i \in 1..Len(pixels) |-> IF i \in members THEN pixels[i].b ELSE 0]))]

\* [...buckets.values()].sort((a, b) => b.count - a.count): the larger count
\* first, and the Map's insertion order among equal counts.
sortedBuckets(pixels) ==
    LET buckets == {bucketOf(pixels, bucketKey(pixels[i])) : i \in 1..Len(pixels)}
        Before(a, b) == a.count > b.count \/ (a.count = b.count /\ a.first < b.first)
    IN  ArrayOf([p \in 1..Cardinality(buckets) |->
            CHOOSE b \in buckets : Cardinality({a \in buckets : Before(a, b)}) = p - 1])

\* The sequences that take their i-th element from the i-th set.
RECURSIVE listsOf(_)
listsOf(sets) ==
    IF Len(sets) = 0 THEN {<<>>}
    ELSE {<<e>> \o rest : e \in Head(sets), rest \in listsOf(Tail(sets))}

\* The outcomes of _getDominantColorsFromPixels(pixels, count).
_getDominantColorsFromPixels(pixels, count) ==
    IF Len(pixels) = 0 THEN {<<>>}
    ELSE LET sorted == sortedBuckets(pixels)
             top == SubSeq(sorted, 1, Min2(count, Len(sorted)))
             rgbOf(b) == RGB(RoundHalfUp(b.totalR, b.count),
                             RoundHalfUp(b.totalG, b.count),
                             RoundHalfUp(b.totalB, b.count))
             entries(b) ==
                 {[rgb |-> rgbOf(b),
                   hsl |-> c,
                   hex |-> rgbToHex(rgbOf(b).r, rgbOf(b).g, rgbOf(b).b),
                   frequency |-> Frequency(b.count, Len(pixels))] :
                     c \in rgbToHsl(rgbOf(b).r, rgbOf(b).g, rgbOf(b).b)}
         IN  listsOf(ArrayOf([i \in 1..Len(top) |-> entries(top[i])]))

\* The largest k with k * k <= n, for n below 2^31.
RECURSIVE sqrtBetween(_, _, _)
sqrtBetween(n, lo, hi) ==
    IF lo = hi THEN lo
    ELSE LET mid == (lo + hi + 1) \div 2
         IN  IF mid * mid <= n THEN sqrtBetween(n, mid, hi)
             ELSE sqrtBetween(n, lo, mid - 1)

FloorSqrt(n) == sqrtBetween(n, 0, 46340)

\* The squared distance of a pixel from the dominant colour.
squaredDistance(px, c) ==
    (px.r - c.r) * (px.r - c.r) + (px.g - c.g) * (px.g - c.g)
        + (px.b - c.b) * (px.b - c.b)

\* The outcomes of _calculateConfidence, in hundredths.  With a = |all|,
\* f = |filtered|, n = |samplePixels|, m = |sample| and T the sum of the
\* distances, 100 * confidence is
\*   40 min(1, 2 f / a) + 40 max(0, 1 - T / (150 m)) + 20 min(1, n / 100),
\* computed over the denominator 7500 a m with T in hundredths.
_calculateConfidence(allPixels, filteredPixels, dominantColor) ==
    IF Len(allPixels) = 0 THEN {0}
    ELSE LET a == Len(allPixels)
             f == Len(filteredPixels)
             samplePixels == IF f > 0 THEN filteredPixels ELSE allPixels
             n == Len(samplePixels)
             sample == SubSeq(samplePixels, 1, Min2(n, 200))
             m == Len(sample)
             den == 7500 * a * m
             roots == ArrayOf([i \in 1..m |->
                          FloorSqrt(10000 * squaredDistance(sample[i], dominantColor))])
             exact == ArrayOf([i \in 1..m |->
                          IF roots[i] * roots[i]
                                 = 10000 * squaredDistance(sample[i], dominantColor)
                          THEN 0 ELSE 1])
             distLow == SeqSum(roots)
             distHigh == SeqSum(roots) + SeqSum(exact)
             survival == 40 * 7500 * m * Min2(a, 2 * f)
             count == 20 * 75 * a * m * Min2(100, n)
             consistency(dist) == Max2(0, 40 * den - 20 * a * dist)
             low == survival + consistency(distHigh) + count
             high == survival + consistency(distLow) + count
         IN  ((2 * low + den - 1) \div (2 * den))..((2 * high + den) \div (2 * den))

\* The outcomes of one pass of extractZoneColors' loop.
extractZone(cv, zone) ==
    LET pixelData == _getPixelData(cv, rectOf(zone))
        outcomes(isSkin) ==
            LET filtered == _rejectSkinPixels(pixelData, isSkin)
                used == IF Len(filtered) > 0 THEN filtered ELSE pixelData
                dominant == _getDominantFromPixels(used)
            IN  {[rgb |-> dominant,
                  hsl |-> c,
                  hex |-> rgbToHex(dominant.r, dominant.g, dominant.b),
                  name |-> getColorDescription([hsl |-> c]),
                  confidence |-> confidence,
                  dominantColors |-> dominantColors,
                  isPattern |-> _isPattern(Given(dominantColors)),
                  pixelCount |-> Len(pixelData),
                  filteredCount |-> Len(filtered)] :
                    c \in rgbToHsl(dominant.r, dominant.g, dominant.b),
                    confidence \in _calculateConfidence(pixelData, filtered, dominant),
                    dominantColors \in _getDominantColorsFromPixels(used, 3)}
    IN  UNION {outcomes(isSkin) : isSkin \in skinVerdicts(pixelData)}

\* _getPixelData reaches getImageData, which throws on a canvas that cannot
\* be read.
getPixelDataThrows(cv, rect) ==
    /\ Min2(rect.width, cv.width - Max2(0, rect.x)) > 0
    /\ Min2(rect.height, cv.height - Max2(0, rect.y)) > 0
    /\ ~cv.readable

extractZoneColorsThrows(cv, zs) ==
    \E key \in DOMAIN zs : getPixelDataThrows(cv, rectOf(zs[key]))

\* The outcomes of extractZoneColors(canvas, zones).
extractZoneColors(cv, zs) ==
    LET perZone == [key \in DOMAIN zs |-> extractZone(cv, zs[key])] @@ <<>>
    IN  {colorsOut \in [DOMAIN zs -> UNION {perZone[key] : key \in DOMAIN zs}] :
            \A key \in DOMAIN zs : colorsOut[key] \in perZone[key]}

\* Images whose rows repeat a list of pixels.
Rows(pixels) == [kind |-> "rows", pixels |-> pixels]

\* A navy, a red, a skin tone and a white, a transparent pixel, and a green
\* just below and just at the alpha the sampling keeps.
SamplePixels ==
    {RGBA(20, 30, 80, 255), RGBA(200, 30, 30, 255), RGBA(200, 150, 120, 255),
     RGBA(250, 250, 250, 255), RGBA(0, 0, 0, 0),
     RGBA(10, 200, 10, 127), RGBA(10, 200, 10, 128)}

MaxRows == 2

ExtractImages == {Rows(q) : q \in UNION {[1..n -> SamplePixels] : n \in 1..MaxRows}}

ExtractCanvases ==
    {Canvas(wh[1], wh[2], TRUE, image) : wh \in {<<10, 20>>, <<12, 30>>}, image \in ExtractImages}
    \cup {Canvas(10, 20, FALSE, Rows(<<px>>)) : px \in SamplePixels}

\* The zones detected on the canvas itself; those detected on a canvas a few
\* columns wider and twice as high, and on one ten times the size, whose
\* rectangles lie partly or wholly outside; and the bands alone, without
\* sampling rectangles.
zoneChoices(cv) ==
    LET own == detectZones(cv, FALSE, DefaultZones)
    IN  {own,
         detectZones(Canvas(cv.width + 4, 2 * cv.height, TRUE, cv.image), FALSE, DefaultZones),
         detectZones(Canvas(10 * cv.width, 10 * cv.height, TRUE, cv.image), FALSE, DefaultZones),
         [key \in DOMAIN own |->
             [x |-> own[key].x, y |-> own[key].y, width |-> own[key].width,
              height |-> own[key].height, label |-> own[key].label]]}

InitExtract ==
    /\ pc = "zones"
    /\ colors = <<>>
    /\ neutrals = <<>>
    /\ chromatics = <<>>
    /\ harmony = NoResult
    /\ score = NoScore
    /\ grade = None
    /\ rgb = [r |-> 0, g |-> 0, b |-> 0]
    /\ hsl = NoColor
    /\ args = None
    /\ result = None
    /\ canvas \in ExtractCanvases
    /\ configZones = DefaultZones
    /\ body = None
    /\ zones \in zoneChoices(canvas)
    /\ StoreIdle
    /\ CameraIdle

\* extractZoneColors(canvas, zones)
ExtractZoneColors ==
    /\ pc = "zones"
    /\ IF extractZoneColorsThrows(canvas, zones)
       THEN /\ pc' = "extract threw"
            /\ UNCHANGED result
       ELSE /\ pc' = "extracted"
            /\ result' \in extractZoneColors(canvas, zones)
    /\ UNCHANGED <<analysisVars, args, garmentVars, storeVars, cameraVars>>

SpecExtract == InitExtract /\ [][ExtractZoneColors]_vars

(***************************************************************************)
(* Comparison: the history kept in localStorage.  The store is the record  *)
(* [history, best] of the two items.  A call makes its setItem writes in   *)
(* order, and `writes` gives the outcome of each, "ok" or "quota" (the     *)
(* write throws a QuotaExceededError); writes past the end of the list are *)
(* accepted.  An operator that writes returns the store it leaves and the  *)
(* outcomes still to come.  Entries carry the fields the history code      *)
(* reads: id, timestamp and score.total; an entry with no timestamp has    *)
(* timestamp 0, one with no numeric score.total has score -1.              *)
(***************************************************************************)
MAX_HISTORY == 50

Store(h, b) == [history |-> h, best |-> b]

\* What the store does with the next setItem: the outcomes listed, in order,
\* then success; a list that starts with "always" is a store that rejects
\* every write with a quota error.
writeOutcome(writes) ==
    IF Len(writes) = 0 THEN "ok"
    ELSE IF Head(writes) = "always" THEN "quota" ELSE Head(writes)

writesAfter(writes) ==
    IF Len(writes) = 0 \/ Head(writes) = "always" THEN writes ELSE Tail(writes)

\* The nested saveAnalysis calls the engine's call stack has room for; the
\* call after that throws a RangeError, which the caller's inner catch turns
\* into false.
MaxStack == 4

\* analysisData with the fields _validateAnalysisData asks for, or without.
AnalysisData(total, complete) == [score |-> total, complete |-> complete]

_validateAnalysisData(data) == data.complete

_validateStoredEntry(entry) == entry.score >= 0 /\ entry.timestamp > 0

\* _loadHistory, for a stored array.
_loadHistory(st) == SelectSeq(st.history, _validateStoredEntry)

_getPersonalBest(st) ==
    IF st.best.present /\ _validateStoredEntry(st.best.entry) THEN st.best ELSE NoBest

\* A failed write of the best is caught and logged.
_updatePersonalBest(st, entry, writes) ==
    LET current == _getPersonalBest(st)
    IN  IF ~current.present \/ entry.score > current.entry.score
        THEN [st |-> IF writeOutcome(writes) = "ok"
                     THEN Store(st.history, Best(entry)) ELSE st,
              writes |-> writesAfter(writes)]
        ELSE [st |-> st, writes |-> writes]

\* The trim that keeps the first MAX_HISTORY entries.
trimToMaxKeepsOldest(list) ==
    IF Len(list) > MAX_HISTORY THEN SubSeq(list, 1, MAX_HISTORY) ELSE list

\* if (length > MAX_HISTORY) splice(0, length - MAX_HISTORY)
trimToMax(list) ==
    IF Len(list) > MAX_HISTORY
    THEN SubSeq(list, Len(list) - MAX_HISTORY + 1, Len(list))
    ELSE list

\* _pruneHistory: the newer half is written; if that write fails too, the
\* item is removed.
_pruneHistory(st, writes) ==
    LET loaded == _loadHistory(st)
        pruned == SubSeq(loaded, Len(loaded) \div 2 + 1, Len(loaded))
    IN  [st |-> IF writeOutcome(writes) = "ok" THEN Store(pruned, st.best)
                ELSE Store(<<>>, st.best),
         writes |-> writesAfter(writes)]

\* saveAnalysis(analysisData) at time `now`: the store it leaves, what it
\* returns, the entry it made last, the quota errors it met (each one is
\* followed by _pruneHistory and a retry) and the time.
RECURSIVE saveAnalysis(_, _, _, _, _)
saveAnalysis(st, analysisData, writes, now, quotaErrors) ==
    IF ~_validateAnalysisData(analysisData)
    THEN [st |-> st, value |-> FALSE, entry |-> Entry(0, 0, 0),
          quotaErrors |-> quotaErrors, now |-> now]
    ELSE IF quotaErrors >= MaxStack
    THEN [st |-> st, value |-> FALSE, entry |-> Entry(0, 0, 0),
          quotaErrors |-> quotaErrors, now |-> now]
    ELSE LET entry == Entry(now, now, analysisData.score)
             trimmed == trimToMax(Append(_loadHistory(st), entry))
         IN  IF writeOutcome(writes) = "ok"
             THEN LET saved == Store(trimmed, st.best)
                      updated == _updatePersonalBest(saved, entry, writesAfter(writes))
                  IN  [st |-> updated.st, value |-> TRUE, entry |-> entry,
                       quotaErrors |-> quotaErrors, now |-> now]
             ELSE LET pruned == _pruneHistory(st, writesAfter(writes))
                  IN  saveAnalysis(pruned.st, analysisData, pruned.writes,
                                   now + 1, quotaErrors + 1)

\* existing.sort((a, b) => new Date(a.timestamp) - new Date(b.timestamp)):
\* by timestamp, entries of one timestamp in the order they had.
sortByTimestamp(list) ==
    LET earlier(a, b) == a.timestamp < b.timestamp
    IN  SortSeq(list, earlier)

\* The parsed import: data.history when it is an array, data.personalBest.
Payload(isArray, list, personalBest) ==
    [isArray |-> isArray, history |-> list, personalBest |-> personalBest]

\* importData(jsonString), from the parsed data on.  A write that throws is
\* caught by the outer catch: the call reports failure with what was
\* written before it.
importData(st, data, writes) ==
    IF ~data.isArray THEN [st |-> st, success |-> FALSE, imported |-> 0]
    ELSE LET existing == _loadHistory(st)
             existingIds == {existing[i].id : i \in 1..Len(existing)}
             isNew(entry) == _validateStoredEntry(entry) /\ entry.id \notin existingIds
             added == SelectSeq(data.history, isNew)
             trimmed == trimToMax(sortByTimestamp(existing \o added))
         IN  IF writeOutcome(writes) # "ok"
             THEN [st |-> st, success |-> FALSE, imported |-> 0]
             ELSE LET saved == Store(trimmed, st.best)
                      currentBest == _getPersonalBest(saved)
                  IN  IF /\ data.personalBest.present
                         /\ _validateStoredEntry(data.personalBest.entry)
                         /\ \/ ~currentBest.present
                            \/ data.personalBest.entry.score > currentBest.entry.score
                      THEN IF writeOutcome(writesAfter(writes)) = "ok"
                           THEN [st |-> Store(trimmed, Best(data.personalBest.entry)),
                                 success |-> TRUE, imported |-> Len(added)]
                           ELSE [st |-> saved, success |-> FALSE, imported |-> 0]
                      ELSE [st |-> saved, success |-> TRUE, imported |-> Len(added)]

\* The entry _recalculatePersonalBest keeps: the first of the highest score.
highestOf(list) ==
    list[CHOOSE i \in 1..Len(list) :
            /\ \A j \in 1..Len(list) : list[j].score <= list[i].score
            /\ \A j \in 1..(i - 1) : list[j].score < list[i].score]

_recalculatePersonalBest(st) ==
    LET loaded == _loadHistory(st)
    IN  IF Len(loaded) = 0 THEN Store(st.history, NoBest)
        ELSE Store(st.history, Best(highestOf(loaded)))

\* deleteEntry(id).  A write that throws is caught: the call returns false.
deleteEntry(st, id, writes) ==
    LET loaded == _loadHistory(st)
        keep(h) == h.id # id
        filtered == SelectSeq(loaded, keep)
    IN  IF Len(filtered) = Len(loaded) THEN [st |-> st, value |-> FALSE]
        ELSE IF writeOutcome(writes) # "ok" THEN [st |-> st, value |-> FALSE]
        ELSE LET saved == Store(filtered, st.best)
                 current == _getPersonalBest(saved)
             IN  IF current.present /\ current.entry.id = id
                 THEN IF Len(filtered) > 0 /\ writeOutcome(writesAfter(writes)) # "ok"
                      THEN [st |-> saved, value |-> FALSE]
                      ELSE [st |-> _recalculatePersonalBest(saved), value |-> TRUE]
                 ELSE [st |-> saved, value |-> TRUE]

\* clearHistory(): both items are removed.
clearHistory(st) == Store(<<>>, NoBest)

\* A history of k saves made at times 1 .. k, with scores that rise and
\* fall, and the personal best those saves left.
savedEarlier(k) == [i \in 1..k |-> Entry(i, i, 60 + 10 * (i % 3))]

HistorySizes == {0, 1, MAX_HISTORY - 1, MAX_HISTORY}

MaxCalls == 2

\* Scores of new analyses, below and above the stored ones.
NewScores == {55, 95}

\* The outcomes of a save's writes: all accepted; the history rejected once,
\* the pruned history rejected too, the history rejected twice; the
\* personal best rejected; every write rejected.
WriteOutcomes ==
    {<<>>, <<"quota">>, <<"quota", "quota">>, <<"quota", "ok", "quota">>,
     <<"ok", "quota">>, <<"always">>}

\* Imported entries: one stored already (where the history is not empty),
\* one older and one newer than the stored ones; the lists of them, and
\* payloads with an entry without a timestamp, with a personal best, and
\* without a history array.
ImportEntries == {Entry(1, 1, 70), Entry(101, 2, 90), Entry(102, 200, 65)}

MaxImport == 2

ImportLists == UNION {[1..n -> ImportEntries] : n \in 0..MaxImport}

Payloads ==
    {Payload(TRUE, list, NoBest) : list \in ImportLists}
    \cup {Payload(TRUE, <<Entry(100, 0, 70), Entry(103, 201, 99)>>, NoBest),
          Payload(TRUE, <<Entry(103, 201, 99)>>, Best(Entry(103, 201, 99))),
          Payload(FALSE, <<>>, NoBest)}

\* The outcomes of an import's writes: accepted, the history rejected, and
\* the personal best rejected where there is one to write.
importOutcomes(data) ==
    {<<>>, <<"quota">>} \cup (IF data.personalBest.present THEN {<<"ok", "quota">>} ELSE {})

InitHistory ==
    /\ pc = "idle"
    /\ colors = <<>>
    /\ neutrals = <<>>
    /\ chromatics = <<>>
    /\ harmony = NoResult
    /\ score = NoScore
    /\ grade = None
    /\ rgb = [r |-> 0, g |-> 0, b |-> 0]
    /\ hsl = NoColor
    /\ args = None
    /\ result = None
    /\ GarmentIdle
    /\ CameraIdle
    /\ \E k \in HistorySizes :
        /\ history = savedEarlier(k)
        /\ best = IF k = 0 THEN NoBest ELSE Best(highestOf(savedEarlier(k)))
    /\ clock = MAX_HISTORY + 1

CallAllowed == clock < MAX_HISTORY + 1 + MaxCalls

SaveAnalysis ==
    /\ CallAllowed
    /\ \E total \in NewScores, complete \in BOOLEAN, writes \in WriteOutcomes :
        LET analysisData == AnalysisData(total, complete)
            saved == saveAnalysis(Store(history, best), analysisData, writes, clock, 0)
        IN  /\ args' = [analysisData |-> analysisData, writes |-> writes]
            /\ history' = saved.st.history
            /\ best' = saved.st.best
            /\ result' = [value |-> saved.value, entry |-> saved.entry,
                          quotaErrors |-> saved.quotaErrors]
            /\ clock' = saved.now + 1
    /\ pc' = "saveAnalysis"
    /\ UNCHANGED <<analysisVars, garmentVars, cameraVars>>

ImportData ==
    /\ CallAllowed
    /\ \E data \in Payloads : \E writes \in importOutcomes(data) :
        LET imported == importData(Store(history, best), data, writes)
        IN  /\ args' = [data |-> data, writes |-> writes]
            /\ history' = imported.st.history
            /\ best' = imported.st.best
            /\ result' = [success |-> imported.success, imported |-> imported.imported]
    /\ clock' = clock + 1
    /\ pc' = "importData"
    /\ UNCHANGED <<analysisVars, garmentVars, cameraVars>>

DeleteEntry ==
    /\ CallAllowed
    /\ \E id \in {1, 3, MAX_HISTORY, 999}, writes \in {<<>>, <<"quota">>} :
        LET deleted == deleteEntry(Store(history, best), id, writes)
        IN  /\ args' = [id |-> id, writes |-> writes]
            /\ history' = deleted.st.history
            /\ best' = deleted.st.best
            /\ result' = [value |-> deleted.value]
    /\ clock' = clock + 1
    /\ pc' = "deleteEntry"
    /\ UNCHANGED <<analysisVars, garmentVars, cameraVars>>

ClearHistory ==
    /\ CallAllowed
    /\ args' = <<>>
    /\ history' = clearHistory(Store(history, best)).history
    /\ best' = clearHistory(Store(history, best)).best
    /\ result' = [value |-> TRUE]
    /\ clock' = clock + 1
    /\ pc' = "clearHistory"
    /\ UNCHANGED <<analysisVars, garmentVars, cameraVars>>

NextHistory == SaveAnalysis \/ ImportData \/ DeleteEntry \/ ClearHistory

SpecHistory == InitHistory /\ [][NextHistory]_vars

(***************************************************************************)
(* Camera: startCamera, switchCamera, stopCamera, and the stream requests  *)
(* and video events they wait for.  init() has set the video element.      *)
(***************************************************************************)
\* The constraint sets _requestStream tries in turn (lines 131-157).
RequestAttempts == 4

\* The getUserMedia requests that can be made.
MaxRequests == 4

\* A call that has begun and has neither returned nor thrown.
InProgress(call) == call.pc \in {"awaiting stream", "awaiting video"}

Step(cam, cs, reqs) == [camera |-> cam, calls |-> cs, requests |-> reqs]

\* stopCamera (lines 376-396): the tracks of this.stream are stopped, the
\* stream, the mirror flag and _isStarting are reset.
stopCamera(cam, reqs) ==
    [camera |-> [cam EXCEPT !.stream = NoStream, !.mirrored = FALSE,
                            !.isStarting = FALSE],
     requests |-> IF cam.stream # NoStream
                  THEN [reqs EXCEPT ![cam.stream].stream = "stopped"]
                  ELSE reqs]

\* navigator.mediaDevices.getUserMedia(...) wrapped by _requestWithTimeout
\* (lines 161-164, 182-192): a request the call awaits, its timer running.
getUserMedia(reqs, c) ==
    Append(reqs, [call |-> c, state |-> "pending", stream |-> "none"])

\* startCamera(preferRear) up to its first await (lines 66-79).
startCamera(c, preferRear, cam, cs, reqs) ==
    IF cam.isStarting
    THEN Step(cam, [cs EXCEPT ![c].pc = "returned early"], reqs)
    ELSE LET stopped == stopCamera([cam EXCEPT !.isStarting = TRUE], reqs)
             facing == IF preferRear THEN "environment" ELSE "user"
         IN  Step([stopped.camera EXCEPT !.facing = facing],
                  [cs EXCEPT ![c] = [pc |-> "awaiting stream",
                                     preferRear |-> preferRear,
                                     attempt |-> 1,
                                     request |-> Len(reqs) + 1]],
                  getUserMedia(stopped.requests, c))

\* The awaited request was rejected or timed out: the catch of _requestStream
\* (lines 165-175) tries the next constraints, or rethrows to the catch of
\* startCamera (lines 115-119), which stops the camera and throws.
requestFailed(c, denied, cam, cs, reqs) ==
    IF denied \/ cs[c].attempt = RequestAttempts
    THEN LET stopped == stopCamera([cam EXCEPT !.isStarting = FALSE], reqs)
         IN  Step(stopped.camera, [cs EXCEPT ![c].pc = "threw"], stopped.requests)
    ELSE Step(cam,
              [cs EXCEPT ![c].attempt = @ + 1, ![c].request = Len(reqs) + 1],
              getUserMedia(reqs, c))

\* The awaited request delivered its stream (lines 81-93): it becomes
\* this.stream, the mirror flag is set, and the call waits for the video.
streamDelivered(c, r, cam, cs, reqs) ==
    Step([cam EXCEPT !.stream = r, !.mirrored = ~cs[c].preferRear],
         [cs EXCEPT ![c].pc = "awaiting video"],
         reqs)

Apply(step) ==
    /\ camera' = step.camera
    /\ calls' = step.calls
    /\ requests' = step.requests

\* Calls are made in the order of their numbers.
CanCall == \E c \in Calls : calls[c].pc = "idle"

NextCall == CHOOSE c \in Calls : calls[c].pc = "idle" /\ \A d \in 1..(c - 1) : calls[d].pc # "idle"

CameraFrame == UNCHANGED <<pc, analysisVars, args, result, garmentVars, storeVars>>

InitCamera ==
    /\ pc = "camera"
    /\ colors = <<>>
    /\ neutrals = <<>>
    /\ chromatics = <<>>
    /\ harmony = NoResult
    /\ score = NoScore
    /\ grade = None
    /\ rgb = [r |-> 0, g |-> 0, b |-> 0]
    /\ hsl = NoColor
    /\ ExtIdle

StartCamera ==
    /\ CanCall
    /\ camera.isStarting \/ Len(requests) < MaxRequests
    /\ \E preferRear \in BOOLEAN :
        Apply(startCamera(NextCall, preferRear, camera, calls, requests))
    /\ stopRequested' = FALSE
    /\ CameraFrame

\* switchCamera (lines 340-347): throws without a stream, otherwise starts
\* the camera of the other facing mode.
SwitchCamera ==
    /\ CanCall
    /\ IF camera.stream = NoStream
       THEN /\ calls' = [calls EXCEPT ![NextCall].pc = "threw"]
            /\ UNCHANGED <<camera, requests, stopRequested>>
       ELSE /\ camera.isStarting \/ Len(requests) < MaxRequests
            /\ Apply(startCamera(NextCall, camera.facing # "environment",
                                 camera, calls, requests))
            /\ stopRequested' = FALSE
    /\ CameraFrame

\* getUserMedia's promise is fulfilled with a new MediaStream.  If the timer
\* has fired, the wrapper's promise is settled already and nobody receives
\* the stream.
GetUserMediaResolves ==
    /\ \E r \in 1..Len(requests) :
        LET delivered == [requests EXCEPT ![r].state = "resolved", ![r].stream = "live"]
        IN  \/ /\ requests[r].state = "pending"
               /\ Apply(streamDelivered(requests[r].call, r, camera, calls, delivered))
            \/ /\ requests[r].state = "timed out"
               /\ requests' = delivered
               /\ UNCHANGED <<camera, calls>>
    /\ UNCHANGED stopRequested
    /\ CameraFrame

\* getUserMedia's promise is rejected, with NotAllowedError / SecurityError
\* (denied) or with another error.
GetUserMediaRejects ==
    /\ \E r \in 1..Len(requests), denied \in BOOLEAN :
        LET rejected == [requests EXCEPT ![r].state = "rejected"]
            c == requests[r].call
        IN  \/ /\ requests[r].state = "pending"
               /\ denied \/ calls[c].attempt = RequestAttempts
                         \/ Len(requests) < MaxRequests
               /\ Apply(requestFailed(c, denied, camera, calls, rejected))
            \/ /\ requests[r].state = "timed out"
               /\ requests' = rejected
               /\ UNCHANGED <<camera, calls>>
    /\ UNCHANGED stopRequested
    /\ CameraFrame

\* The timer of _requestWithTimeout fires before getUserMedia settles.
RequestTimesOut ==
    /\ \E r \in 1..Len(requests) :
        LET c == requests[r].call
        IN  /\ requests[r].state = "pending"
            /\ calls[c].attempt = RequestAttempts \/ Len(requests) < MaxRequests
            /\ Apply(requestFailed(c, FALSE, camera, calls,
                                   [requests EXCEPT ![r].state = "timed out"]))
    /\ UNCHANGED stopRequested
    /\ CameraFrame

\* _waitForVideoReady resolves; startCamera returns (lines 101-113).
VideoReady ==
    /\ \E c \in Calls :
        /\ calls[c].pc = "awaiting video"
        /\ camera' = [camera EXCEPT !.isStarting = FALSE]
        /\ calls' = [calls EXCEPT ![c].pc = "returned"]
    /\ UNCHANGED <<requests, stopRequested>>
    /\ CameraFrame

\* _waitForVideoReady rejects (video error or its timeout): the catch of
\* startCamera stops the camera and throws.
VideoFails ==
    /\ \E c \in Calls :
        /\ calls[c].pc = "awaiting video"
        /\ LET stopped == stopCamera([camera EXCEPT !.isStarting = FALSE], requests)
           IN  Apply(Step(stopped.camera, [calls EXCEPT ![c].pc = "threw"],
                          stopped.requests))
    /\ UNCHANGED stopRequested
    /\ CameraFrame

\* stopCamera called by the application or by the unload handler.
StopCamera ==
    /\ LET stopped == stopCamera(camera, requests)
       IN  /\ camera' = stopped.camera
           /\ requests' = stopped.requests
    /\ stopRequested' = TRUE
    /\ UNCHANGED calls
    /\ CameraFrame

NextCamera ==
    \/ StartCamera
    \/ SwitchCamera
    \/ GetUserMediaResolves
    \/ GetUserMediaRejects
    \/ RequestTimesOut
    \/ VideoReady
    \/ VideoFails
    \/ StopCamera

SpecCamera == InitCamera /\ [][NextCamera]_vars

(***************************************************************************)
(* Properties                                                              *)
(***************************************************************************)
Clamp(lo, hi, x) == IF x < lo THEN lo ELSE IF x > hi THEN hi ELSE x

Scored == pc \in {"scored", "graded"} /\ Len(colors) >= 1

\* C1: for 1 to 3 colours and the HarmonyResult analyzeHarmony gives for them,
\* calculateOutfitScore's total is an integer in 0..100 and equals the sum of
\* the six breakdown points clamped to [0, 100].
C1_TotalIsClampedSum ==
    Scored =>
        /\ Len(score.breakdown) = 6
        /\ score.total \in 0..100
        /\ score.total = Clamp(0, 100, SeqSum(score.breakdown))

\* A scored three-colour outfit whose polish item sits at its cap of 15.
C1_Witness ==
    /\ pc = "scored"
    /\ Len(colors) = 3
    /\ harmony.type = "Analogous"
    /\ score.breakdown[6] = 15
    /\ score.total = SeqSum(score.breakdown)

\* The grade scale: each tier with its inclusive lower bound (F has none).
GradeTiers ==
    { <<95, "S">>, <<90, "A+">>, <<85, "A">>, <<80, "B+">>, <<75, "B">>,
      <<70, "C+">>, <<65, "C">>, <<58, "D+">>, <<50, "D">>, <<40, "E">>,
      <<0, "F">> }

TierOf(sc) ==
    CHOOSE t \in GradeTiers :
        t[1] <= sc /\ \A u \in GradeTiers : u[1] <= sc => u[1] <= t[1]

BoundOf(letter) == (CHOOSE t \in GradeTiers : t[2] = letter)[1]

\* C2: for every score in 0..100 getGrade returns the letter of the tier with
\* the greatest lower bound not above the score; getGrade(95) = S,
\* getGrade(94) = A+, getGrade(39) = F; a higher score never gets a lower tier.
C2_GradeIsTier ==
    pc = "graded" =>
        /\ grade = TierOf(score.total)[2]
        /\ score.total = 95 => grade = "S"
        /\ score.total = 94 => grade = "A+"
        /\ score.total = 39 => grade = "F"
        /\ \A lower \in 0..score.total : BoundOf(getGrade(lower)) <= BoundOf(grade)

C2_Witness == pc = "graded" /\ score.total = 95 /\ grade = "S"

(***************************************************************************)
(* The hue geometry of the chromatic colours, stated on the state          *)
(***************************************************************************)
Analyzed == pc \in {"analyzed", "scored", "graded"} /\ Len(colors) >= 2

CircularDiff(a, b) ==
    LET x == (a - b) % 360
    IN  IF x <= 360 - x THEN x ELSE 360 - x

ChromaticPairs ==
    {p \in (1..Len(chromatics)) \X (1..Len(chromatics)) : p[1] < p[2]}

PairDiff(p) == CircularDiff(chromatics[p[1]].h, chromatics[p[2]].h)

ChromaticDiffs == {PairDiff(p) : p \in ChromaticPairs}

RECURSIVE SumPairDiffs(_)
SumPairDiffs(ps) ==
    IF ps = {} THEN 0
    ELSE LET p == CHOOSE q \in ps : TRUE
         IN  PairDiff(p) + SumPairDiffs(ps \ {p})

DiffTotal == SumPairDiffs(ChromaticPairs)

DiffCount == Cardinality(ChromaticPairs)

MaxChromaticDiff == SetMax(ChromaticDiffs)

MinChromaticDiff == SetMin(ChromaticDiffs)

ChromaticSatTotal == SeqSum([i \in 1..Len(chromatics) |-> chromatics[i].s])

SpreadOf(values) == SetMax(values) - SetMin(values)

\* The rules tested before Triadic all miss.
BeforeTriadicMiss ==
    /\ MaxChromaticDiff > 60
    /\ \A d \in ChromaticDiffs : ~(d >= 130 /\ d <= 170)
    /\ MaxChromaticDiff < 150

TriadicShape ==
    /\ Len(chromatics) = 3
    /\ \/ \A d \in ChromaticDiffs : d >= 90 /\ d <= 150
       \/ MaxChromaticDiff - MinChromaticDiff < 40
    /\ DiffTotal >= 90 * DiffCount

\* C3: two or more chromatic colours with maximum pairwise hue difference
\* below 25 give Monochromatic (87) when their saturation range or their
\* lightness range exceeds 25 and Monochromatic - Flat (68) otherwise; three
\* copies of {h:220, s:80, l:20} give Monochromatic - Flat, 68.
C3_Monochromatic ==
    /\ Analyzed /\ Len(chromatics) >= 2 /\ MaxChromaticDiff < 25 =>
           harmony = IF \/ SpreadOf({chromatics[i].s : i \in 1..Len(chromatics)}) > 25
                        \/ SpreadOf({chromatics[i].l : i \in 1..Len(chromatics)}) > 25
                     THEN Result("Monochromatic", 87)
                     ELSE Result("Monochromatic - Flat", 68)
    /\ Analyzed /\ colors = <<HSL(220, 80, 20), HSL(220, 80, 20), HSL(220, 80, 20)>> =>
           harmony = Result("Monochromatic - Flat", 68)

\* Same hue and saturation, lightness 50 and 76: the lightness range alone
\* makes it Monochromatic.
C3_Witness ==
    /\ pc = "analyzed"
    /\ colors = <<HSL(0, 60, 50), HSL(0, 60, 76)>>
    /\ harmony = Result("Monochromatic", 87)

\* C4: hues 0, 120, 240 at s = 60, l = 50 give Triadic (82), and so do any
\* three chromatic colours that no earlier rule matches whose pairwise
\* differences all lie in [90, 150] or lie within 40 of each other, with
\* average difference at least 90.
C4_Triadic ==
    /\ Analyzed /\ Len(colors) = 3
         /\ Range(colors) = {HSL(0, 60, 50), HSL(120, 60, 50), HSL(240, 60, 50)} =>
           harmony = Result("Triadic", 82)
    /\ Analyzed /\ Len(chromatics) = 3 /\ BeforeTriadicMiss /\ TriadicShape =>
           harmony = Result("Triadic", 82)

C4_Witness ==
    /\ pc = "analyzed"
    /\ colors = <<HSL(0, 60, 50), HSL(120, 60, 50), HSL(240, 60, 50)>>
    /\ harmony = Result("Triadic", 82)

\* C5: with 2 or 3 colours of which fewer than two are chromatic the neutral
\* rules decide: no chromatic colour gives Achromatic Contrast (85) when the
\* lightness range of all colours exceeds 40 and Achromatic (72) otherwise;
\* one chromatic colour gives Neutral-Anchored Pop (88) when its saturation
\* exceeds 50 and Neutral-Anchored (80) otherwise.
C5_NeutralRules ==
    Analyzed /\ Len(chromatics) < 2 =>
        /\ harmony.type \in {"Achromatic Contrast", "Achromatic",
                             "Neutral-Anchored Pop", "Neutral-Anchored"}
        /\ Len(chromatics) = 0 =>
               harmony = IF SpreadOf({colors[i].l : i \in 1..Len(colors)}) > 40
                         THEN Result("Achromatic Contrast", 85)
                         ELSE Result("Achromatic", 72)
        /\ Len(chromatics) = 1 =>
               harmony = IF chromatics[1].s > 50
                         THEN Result("Neutral-Anchored Pop", 88)
                         ELSE Result("Neutral-Anchored", 80)

\* One chromatic colour of saturation exactly 50 among neutrals.
C5_Witness ==
    /\ pc = "analyzed"
    /\ Len(colors) = 3
    /\ Len(chromatics) = 1
    /\ chromatics[1].s = 50
    /\ harmony = Result("Neutral-Anchored", 80)

\* C6: when no earlier rule matches, the average pairwise hue difference is
\* in [60, 130) and the average saturation exceeds 45, the result is Tension
\* (Neutral-Rescued), 62, with a neutral and at most two chromatic colours,
\* and otherwise Color Clash, 32 when analyzeTemperature counts a warm and a
\* cool chromatic colour and 40 when it does not.
C6_ClashFamily ==
    Analyzed /\ Len(chromatics) >= 2 /\ BeforeTriadicMiss /\ ~TriadicShape
      /\ DiffTotal >= 60 * DiffCount /\ DiffTotal < 130 * DiffCount
      /\ ChromaticSatTotal > 45 * Len(chromatics) =>
        harmony = IF Len(neutrals) >= 1 /\ Len(chromatics) <= 2
                  THEN Result("Tension (Neutral-Rescued)", 62)
                  ELSE IF /\ analyzeTemperature(chromatics).warmCount > 0
                          /\ analyzeTemperature(chromatics).coolCount > 0
                       THEN Result("Color Clash", 32)
                       ELSE Result("Color Clash", 40)

\* Three chromatic colours of one temperature that clash.
C6_Witness ==
    /\ pc = "analyzed"
    /\ Len(chromatics) = 3
    /\ harmony = Result("Color Clash", 40)

\* C7: Cool Harmony is returned only when every chromatic colour has a hue
\* in the cool range [170, 300), and Warm Harmony only when every chromatic
\* colour has a hue in the warm range [0, 70) or [300, 360).
C7_TemperatureFamilies ==
    Analyzed /\ Len(chromatics) >= 2 =>
        LET hues == {chromatics[i].h : i \in 1..Len(chromatics)}
        IN  /\ harmony.type = "Cool Harmony" =>
                   \A h \in hues : h >= 170 /\ h < 300
            /\ harmony.type = "Warm Harmony" =>
                   \A h \in hues : (h >= 0 /\ h < 70) \/ (h >= 300 /\ h <= 360)

\* C8: every colour for which isFashionNeutral holds is placed in the neutral
\* group and kept out of the chromatic group whose hues are compared.
C8_FashionNeutralsAreNeutral ==
    Analyzed =>
        \A i \in 1..Len(colors) :
            isFashionNeutral(colors[i]) =>
                /\ colors[i] \in Range(neutrals)
                /\ colors[i] \notin Range(chromatics)

\* The types analyzeHarmony returns over the inputs of 2 or 3 colours with
\* hue in 0..359.
ReturnedTypes ==
    { analyzeHarmony(cs).type :
        cs \in {l \in ColorLists : Len(l) >= 2 /\ \A i \in 1..Len(l) : l[i].h <= 359} }

\* C9: over all inputs of 2 or 3 colours the types analyzeHarmony returns,
\* the one just returned among them, are exactly 13.
C9_ThirteenTypes ==
    Analyzed /\ (\A i \in 1..Len(colors) : colors[i].h <= 359) =>
        /\ harmony.type \in ReturnedTypes
        /\ Cardinality(ReturnedTypes) = 13

\* C10: for every RGB triple rgbToHsl returns h in [0, 360), 360 excluded,
\* and s and l in [0, 100].
C10_HslRanges ==
    pc = "hsl" =>
        /\ hsl.h \in 0..359
        /\ hsl.s \in 0..100
        /\ hsl.l \in 0..100

RoundTripped == pc = "rgb again"

\* The largest difference of a channel between the input and the round trip.
RoundTripError ==
    Max2(Abs(result.r - rgb.r), Max2(Abs(result.g - rgb.g), Abs(result.b - rgb.b)))

\* C11 (as stated): rgbToHsl with integer-rounded h, s, l and then hslToRgb
\* gives back each of r, g, b to within 1.
C11_RoundTripWithinOne == RoundTripped => RoundTripError <= 1

\* C11 (amended): rgbToHsl and then hslToRgb gives back each of r, g, b to
\* within 5; the rounding of h, s and l to integers costs more than 1.
C11_RoundTripWithinFive == RoundTripped => RoundTripError <= 5

\* (2, 228, 230) becomes hsl (181, 98, 45) and comes back as (2, 223, 227).
C11_Witness ==
    /\ RoundTripped
    /\ rgb = [r |-> 2, g |-> 228, b |-> 230]
    /\ RoundTripError = 5

RECURSIVE SmallestSum(_, _, _)
SmallestSum(values, t, S) ==
    IF S = {} THEN 0
    ELSE LET v == CHOOSE y \in S : TRUE
             count == Cardinality({i \in 1..Len(values) : values[i] = v})
             below == Cardinality({i \in 1..Len(values) : values[i] < v})
         IN  v * Clamp(0, count, t - below) + SmallestSum(values, t, S \ {v})

\* The sum of the t largest of the values.
RECURSIVE LargestSum(_, _, _)
LargestSum(values, t, S) ==
    IF S = {} THEN 0
    ELSE LET v == CHOOSE y \in S : TRUE
             count == Cardinality({i \in 1..Len(values) : values[i] = v})
             above == Cardinality({i \in 1..Len(values) : values[i] > v})
         IN  v * Clamp(0, count, t - above) + LargestSum(values, t, S \ {v})

\* C14: for a non-empty list of n channel values _trimmedMean is the rounded
\* mean of what is left after dropping the floor(n/10) smallest and largest;
\* it is an integer between the minimum and the maximum (100 copies of 50
\* give 50), what is left is never empty, and the empty list gives a number.
C14_TrimmedMean ==
    pc = "mean" =>
        LET n == Len(args)
            kept == n - 2 * (n \div 10)
            trim == n \div 10
            sum == LargestSum(args, n, Range(args))
                     - SmallestSum(args, trim, Range(args))
                     - LargestSum(args, trim, Range(args))
        IN  IF n = 0 THEN result \in Nat
            ELSE /\ kept >= 1
                 /\ result \in SetMin(Range(args))..SetMax(Range(args))
                 /\ 2 * kept * result <= 2 * sum + kept
                 /\ 2 * sum + kept < 2 * kept * (result + 1)
                 /\ (\A i \in 1..n : args[i] = 50) => result = 50

\* Ten values of which the smallest and the largest are dropped: the eight
\* left are seven 1s and a 0, mean 0.875, rounded to 1.
C14_Witness ==
    /\ pc = "mean"
    /\ Len(args) = 10
    /\ Cardinality({i \in 1..10 : args[i] = 0}) = 2
    /\ Cardinality({i \in 1..10 : args[i] = 255}) = 1
    /\ args[1] = 255
    /\ result = 1

\* The prefixes getColorDescription can put before a hue name.
Modifiers == {"Very Dark ", "Dark ", "Pale ", "Light ", "Muted ", "Vivid ", "Vibrant "}

\* C18: for every h in 0..360 and s, l in 0..100 getColorDescription returns a
\* non-empty name that neither is nor contains 'Unknown': the hue bands of
\* _getHueName cover every hue.
C18_DescriptionTotal ==
    pc = "described" =>
        /\ Len(result) > 0
        /\ result # "Unknown"
        /\ \A m \in Modifiers : result # m \o "Unknown"

\* Hue 360, which rgbToHsl can return, named by the red band with a modifier.
C18_Witness ==
    /\ pc = "described"
    /\ hsl = HSL(360, 100, 25)
    /\ result = "Dark Maroon"

Detected == pc = "body" /\ body.scanned /\ ~body.bounds.null

\* C15: a detected body column whose best window starts at s and has size w,
\* in an image of width W with padding p = floor(0.05 W), is returned as the
\* window widened by p on each side and cut to the image: x = max(0, s - p)
\* and x + width = min(W, s + w + p).
C15_PaddedWindow ==
    Detected =>
        LET W == canvas.width
            s == body.scan.maxStart
            w == W \div 2
            p == (5 * W) \div 100
        IN  /\ body.bounds.x = Max2(0, s - p)
            /\ body.bounds.x + body.bounds.width = Min2(W, s + w + p)

\* The window sum of the edge strengths over columns i .. i + w - 1.
RECURSIVE WindowSum(_, _, _)
WindowSum(edges, i, w) ==
    IF w = 0 THEN 0 ELSE edges[i + w] + WindowSum(edges, i, w - 1)

\* C16: for a width of at least 20 the scan's window start is the leftmost
\* index i of 0 .. W - windowSize whose window i .. i + windowSize - 1 has
\* the largest sum of edge strengths, and maxSum is that window's sum.
C16_DensestWindow ==
    (pc = "body" /\ body.scanned) =>
        LET W == canvas.width
            w == W \div 2
            edges == body.edgeStrength
            s == body.scan.maxStart
        IN  /\ s \in 0..(W - w)
            /\ body.scan.maxSum = WindowSum(edges, s, w)
            /\ \A i \in 0..(W - w) : WindowSum(edges, i, w) <= body.scan.maxSum
            /\ \A i \in 0..(s - 1) : WindowSum(edges, i, w) < body.scan.maxSum

\* Two windows tie for the largest sum and the scan keeps the left one, which
\* does not start at the first column.
C16_Witness ==
    /\ pc = "body"
    /\ body.scanned
    /\ body.scan.maxStart > 0
    /\ body.scan.maxSum > 0
    /\ \E i \in (body.scan.maxStart + 1)..(canvas.width - canvas.width \div 2) :
           WindowSum(body.edgeStrength, i, canvas.width \div 2) = body.scan.maxSum

ZoneKeys == {"top", "bottom", "shoes"}

RectsValid ==
    \A k \in ZoneKeys :
        LET r == zones[k].samplingRect
        IN  /\ r.width >= 1 /\ r.height >= 1
            /\ r.x >= 0 /\ r.y >= 0
            /\ r.x + r.width <= canvas.width
            /\ r.y + r.height <= canvas.height

RectsDisjoint ==
    /\ zones["top"].samplingRect.y + zones["top"].samplingRect.height
           <= zones["bottom"].samplingRect.y
    /\ zones["bottom"].samplingRect.y + zones["bottom"].samplingRect.height
           <= zones["shoes"].samplingRect.y

\* C17 as stated: for every image of width and height at least 1 and every
\* outcome of the body-column detection, the three sampling rectangles are at
\* least 1 wide and high, inside the image, and top lies entirely above
\* bottom, bottom entirely above shoes.
C17_ZonesDisjoint ==
    pc = "zones" => RectsValid /\ RectsDisjoint

\* C17 amended: the rectangles are always at least 1 wide and high and inside
\* the image, and for a height of at least 3 they are vertically disjoint.
C17_ZonesDisjointFromThree ==
    pc = "zones" => /\ RectsValid
                    /\ canvas.height >= 3 => RectsDisjoint

\* A body column was detected on an image whose top band falls one row short,
\* and the rectangles use it.
C17_Witness ==
    /\ pc = "zones"
    /\ args.smartCrop
    /\ ~body.bounds.null
    /\ canvas.height = 150
    /\ zones["top"].samplingRect.x = body.bounds.x
    /\ zones["top"].height = 50
    /\ zones["bottom"].samplingRect.y = 68

\* C19: after any call of detectZonesWithProportions, returned or thrown,
\* _config.zones has the value it had before the call, so that a later
\* detectZones uses the default proportions 8-42, 42-78 and 78-97.
C19_ConfigRestored ==
    /\ pc \in {"proportions", "proportions threw", "zones", "zones threw"}
           => configZones = DefaultZones
    /\ pc = "zones" => zones = detectZones(canvas, args.smartCrop, DefaultZones)

\* The pixels of the canvas that the sampling of a rectangle reads: every
\* fourth, row by row, of the part of the rectangle inside the canvas.
SampledPixels(rect) ==
    LET x == Max2(0, rect.x)
        y == Max2(0, rect.y)
        w == Min2(rect.width, canvas.width - x)
        h == Min2(rect.height, canvas.height - y)
    IN  IF w <= 0 \/ h <= 0 THEN {}
        ELSE {pixelAt(canvas, x + (i % w), y + (i \div w)) :
                 i \in {j \in 0..(w * h - 1) : j % 4 = 0}}

NothingToSample ==
    \A key \in DOMAIN zones :
        \A px \in SampledPixels(rectOf(zones[key])) : px.a < 128

\* C12: when no sampling rectangle of the three zones holds a sampled pixel
\* of alpha at least 128 (the pixels of the canvas being readable),
\* extractZoneColors does not throw, and gives each of top, bottom and shoes
\* the rgb {128, 128, 128}, confidence 0, an empty dominantColors list and
\* isPattern false.
C12_SentinelForNoPixels ==
    (canvas.readable /\ NothingToSample) =>
        /\ pc # "extract threw"
        /\ pc = "extracted" =>
               /\ DOMAIN result = {"top", "bottom", "shoes"}
               /\ \A key \in DOMAIN result :
                      /\ result[key].rgb = [r |-> 128, g |-> 128, b |-> 128]
                      /\ result[key].confidence = 0
                      /\ result[key].dominantColors = <<>>
                      /\ result[key].isPattern = FALSE

\* The rectangles hold only pixels just below the alpha that is kept, and
\* the extraction has returned.
C12_Witness ==
    /\ pc = "extracted"
    /\ NothingToSample
    /\ \E key \in DOMAIN zones :
           \E px \in SampledPixels(rectOf(zones[key])) : px.a = 127
    /\ result["top"].pixelCount = 0

\* The last MAX_HISTORY entries of a list, in its order.
NewestFifty(list) ==
    [i \in 1..Min2(Len(list), 50) |-> list[Len(list) - Min2(Len(list), 50) + i]]

\* A saveAnalysis that returned true has just been made.
Saved == pc' = "saveAnalysis" /\ result'.value

DistinctIds(list) ==
    \A i, j \in 1..Len(list) : i # j => list[i].id # list[j].id

\* How many entries of a list have the id.
IdCount(list, id) == Cardinality({i \in 1..Len(list) : list[i].id = id})

\* C21: importData deduplicates by id: where the stored history has no two
\* entries of one id before the call, it has none after importData of any
\* payload, and an entry whose id is already stored is not added again.
C21_ImportKeepsIdsDistinct ==
    [][(pc' = "importData" /\ DistinctIds(history)) =>
          /\ DistinctIds(history')
          /\ \A i \in 1..Len(history) :
                 IdCount(history', history[i].id) <= 1]_vars

\* Where the stored history is not empty, a personal best is stored and no
\* stored entry has a higher score.total.
BestTracks(list, stored) ==
    Len(list) > 0 =>
        /\ stored.present
        /\ \A i \in 1..Len(list) : list[i].score <= stored.entry.score

\* A saveAnalysis, importData or deleteEntry all of whose writes succeeded.
WrittenCall ==
    /\ pc' \in {"saveAnalysis", "importData", "deleteEntry"}
    /\ args'.writes = <<>>

\* C22: the personal best tracks the highest score: a saveAnalysis,
\* importData or deleteEntry whose writes succeed, made where the personal
\* best is at least every stored score (as it is on an empty history),
\* leaves a history that, if not empty, has a stored personal best at least
\* as high as every stored entry's score.total.
C22_BestIsHighest ==
    [][(WrittenCall /\ BestTracks(history, best)) => BestTracks(history', best')]_vars

\* C23: when writing the history raises a quota error, saveAnalysis prunes
\* and retries the save at most once, whatever the store does (a store that
\* rejects every write included), and returns true or false.
C23_RetriesOnce ==
    pc = "saveAnalysis" =>
        /\ result.quotaErrors <= 1
        /\ result.value \in BOOLEAN

IsComplementaryType(type) == type \in {"Complementary", "Complementary - Bold"}

\* C26: analyzeHarmony returns 'Complementary' or 'Complementary - Bold'
\* exactly when there are at least two chromatic colours, no pairwise hue
\* difference lies in [130, 170] and the largest one is above 170 (and at
\* most 180); a list with a pairwise difference between 150 and 170 is
\* classified 'Split-Complementary'.
C26_ComplementaryAboveSplit ==
    pc = "analyzed" =>
        /\ IsComplementaryType(harmony.type) <=>
              /\ Len(chromatics) >= 2
              /\ \A d \in ChromaticDiffs : ~(d >= 130 /\ d <= 170)
              /\ \E d \in ChromaticDiffs : d > 170
              /\ \A d \in ChromaticDiffs : d <= 180
        /\ (\E d \in ChromaticDiffs : d >= 150 /\ d <= 170) =>
              harmony.type = "Split-Complementary"

\* Three chromatic colours with a pair of opposite hues and a pair 150 to
\* 170 degrees apart have been classified.
C26_Witness ==
    /\ pc = "analyzed"
    /\ Len(chromatics) = 3
    /\ \E d \in ChromaticDiffs : d > 170
    /\ \E d \in ChromaticDiffs : d >= 150 /\ d <= 170
    /\ harmony.type = "Split-Complementary"

\* The analysed list in the order given by a permutation of its positions.
Permuted(perm) == [i \in 1..Len(colors) |-> colors[perm[i]]]

\* C27: the harmony type and score do not depend on garment order: for a
\* list of 2 or 3 colours, analyzeHarmony of every permutation of the list
\* returns the type and score it returned for the list.
C27_OrderIndependent ==
    (pc = "analyzed" /\ Len(colors) \in {2, 3}) =>
        \A perm \in Permutations(1..Len(colors)) :
            LET permuted == analyzeHarmony(Permuted(perm))
            IN  /\ permuted.type = harmony.type
                /\ permuted.score = harmony.score

\* Three chromatic colours of three hues, whose outer two are next to each
\* other on the wheel and whose middle one is not, have been analysed.
C27_Witness ==
    /\ pc = "analyzed"
    /\ Len(colors) = 3
    /\ Len(chromatics) = 3
    /\ CircularDiff(colors[1].h, colors[3].h) <= 60
    /\ CircularDiff(colors[1].h, colors[2].h) > 60
    /\ CircularDiff(colors[2].h, colors[3].h) > 60

\* The hues of the scored colours of saturation 12 or more.
ScoredChromaticHues == {colors[i].h : i \in {k \in 1..Len(colors) : colors[k].s >= 12}}

\* C28: when at least two colours are chromatic (saturation at least 12), the
\* Warm/Cool Coherence item is 4 ('mixed') only if the chromatic colours
\* include a warm hue and a cool hue.
C28_MixedNeedsWarmAndCool ==
    ( /\ pc = "scored"
      /\ Cardinality({k \in 1..Len(colors) : colors[k].s >= 12}) >= 2
      /\ score.breakdown[4] = 4 ) =>
        /\ \E h \in ScoredChromaticHues : _isWarmHue(h)
        /\ \E h \in ScoredChromaticHues : _isCoolHue(h)

\* The call begins startCamera in this step.
Begins(c) ==
    /\ calls[c].pc = "idle"
    /\ calls'[c].pc \in {"awaiting stream", "returned early"}

\* C24: concurrent camera starts are prevented: a startCamera call begun
\* while another one is in progress returns at once, without a getUserMedia
\* request and without changing the stream, the facing mode or the mirror
\* state; so at most one call is waiting for a stream request.
C24_OneStartAtATime ==
    [][\A c \in Calls :
          (Begins(c) /\ \E d \in Calls \ {c} : InProgress(calls[d])) =>
              /\ calls'[c].pc = "returned early"
              /\ requests' = requests
              /\ camera'.stream = camera.stream
              /\ camera'.facing = camera.facing
              /\ camera'.mirrored = camera.mirrored
              /\ Cardinality({d \in Calls : calls'[d].pc = "awaiting stream"}) <= 1]_vars

\* C25: stopCamera releases all camera resources under every interleaving:
\* every stream getUserMedia delivered is the current Camera.stream or has
\* its tracks stopped, and once stopCamera was called and no startCamera
\* begun after it, no delivered stream is live.
C25_StreamsReleased ==
    /\ \A r \in 1..Len(requests) :
           requests[r].stream = "live" => camera.stream = r
    /\ stopRequested => \A r \in 1..Len(requests) : requests[r].stream # "live"

====
